---- MODULE Spec2Model ----
(***************************************************************************)
(* Storage subsystem of the personal archive (Mnemosyne):                  *)
(*   GitHubService  (remote object client,  src/src/App.tsx 387-558)       *)
(*   CacheService   (local cache,           src/unnamed/part_002 11-115)   *)
(*   StorageService (storage coordinator,   src/src/App.tsx 174-383)       *)
(* Every asynchronous method is cut at its awaits: the synchronous prefix  *)
(* runs when the method is called, each remote request is one step at the  *)
(* server, and the continuation after the last await is one more step.     *)
(* Time is counted in minutes.                                             *)
(* Specifications:                                                         *)
(*   Spec        a session after init() has succeeded (Reload is a reload  *)
(*               followed by a successful init())                          *)
(*   SpecInit    the cold start: init() not yet called, running or failed  *)
(*   SpecAssets  entities with an image, deleteItem with the id or Item    *)
(*   SpecFlags   the three toggles, with another device toggling too       *)
(*   SpecFaults  getItems(true) over failing reads and foreign files       *)
(*   SpecCache   the CacheService called directly, setItem may fail        *)
(*   SpecApp     the App component: login, initStorage, logout, the feed   *)
(*   SpecAppRetry  the same with logout only on the failure screen         *)
(*   SpecCard    the delete control of one ItemCard                        *)
(*   SpecRace    two calls of updateItem / deleteItem in flight at once    *)
(*   SpecOverlap a saveItem and a getItems in flight at once               *)
(*   SpecCapture the capture bar: uploadAsset, optimisticUpdate, saveItem  *)
(*   SpecStale   an entity deleted by another device, refetch and remove   *)
(***************************************************************************)
EXTENDS Integers, Sequences, FiniteSets, TLC

\* ------------------------------------------------------------------ bounds
MaxNow == 14          \* the clock stops advancing here
TickMinutes == 3      \* the clock advances in steps of this many minutes
MaxExt == 1           \* writes of the other writer (another device) per run
MaxReload == 1        \* page reloads (cold starts) per run
MaxOps == 3           \* coordinator calls per run

\* --------------------------------------------------------------- constants
CACHE_TTL == 5        \* 1000 * 60 * 5 ms, in minutes
StartNow == CACHE_TTL + 1   \* Date.now() at page load: later than CACHE_TTL

Ids == {1, 2}
Slots == {1}

\* ------------------------------------------------------------------- items
\* An Item; the optional fields hold FALSE / 0 / "" when absent. image is
\* the path of the entity's asset.
Item(i, c, u, p, txt) ==
    [id |-> i, createdAt |-> c, updatedAt |-> u, pinned |-> p, content |-> txt,
     starred |-> FALSE, archived |-> FALSE, image |-> ""]

NoItem == Item(0, 0, 0, FALSE, "")

\* The entities a caller saves or stages: entity i was created at time i.
NewItems == {Item(i, i, 0, p, "a") : i \in Ids, p \in BOOLEAN}

\* JSON.stringify(item, null, 2) and JSON.parse(content): the stored text is
\* the entity's JSON; any other text does not parse.
\* A serialisation that loses the pin.
StringifyNoPin(item) == [json |-> TRUE, item |-> [item EXCEPT !.pinned = FALSE]]

Stringify(item) == [json |-> TRUE, item |-> item]
ParseOk(content) == content.json
Parse(content) == content.item

\* `data/${item.createdAt}-${item.id}.json`
getFilePath(item) == <<item.createdAt, item.id>>

DataPaths == {getFilePath(item) : item \in NewItems}

\* The version token GitHub returns for a file is its blob sha, a hash of
\* the content: equal contents have equal tokens.
ShaOf(content) == content

\* ------------------------------------------------------------- sequences
SeqRange(s) == {s[k] : k \in 1..Len(s)}

HasId(s, id) == \E k \in 1..Len(s) : s[k].id = id

\* ------------------------------------------------------ Map<string, Item>
\* memoryCache is a JavaScript Map: iteration is in insertion order, and
\* set() on an existing key keeps the key's position.
MapSet(mem, item) ==
    IF HasId(mem, item.id)
    THEN [k \in 1..Len(mem) |-> IF mem[k].id = item.id THEN item ELSE mem[k]]
    ELSE Append(mem, item)

RECURSIVE MapDelete(_, _)
MapDelete(mem, id) ==
    IF mem = <<>> THEN <<>>
    ELSE (IF Head(mem).id = id THEN <<>> ELSE <<Head(mem)>>) \o MapDelete(Tail(mem), id)

RECURSIVE MapSetAll(_, _)
MapSetAll(mem, items) ==
    IF items = <<>> THEN mem
    ELSE MapSetAll(MapSet(mem, Head(items)), Tail(items))

\* ------------------------------------------------------------ sortItems
\* A comparator that looks at the dates only.
CompareDates(a, b) == b.createdAt - a.createdAt

\* The comparator of StorageService.sortItems.
Compare(a, b) ==
    IF a.pinned /\ ~b.pinned THEN -1
    ELSE IF ~a.pinned /\ b.pinned THEN 1
    ELSE b.createdAt - a.createdAt

\* Array.prototype.sort is stable: an element goes before the first element
\* the comparator puts strictly after it.
RECURSIVE InsertSorted(_, _)
InsertSorted(sorted, x) ==
    IF sorted = <<>> THEN <<x>>
    ELSE IF Compare(Head(sorted), x) > 0 THEN <<x>> \o sorted
    ELSE <<Head(sorted)>> \o InsertSorted(Tail(sorted), x)

RECURSIVE sortItems(_)
sortItems(items) ==
    IF items = <<>> THEN <<>>
    ELSE InsertSorted(sortItems(SubSeq(items, 1, Len(items) - 1)), items[Len(items)])

\* ------------------------------------------------------------ CacheService
\* A cache state k: the CacheService object (memoryCache, lastSync) and the
\* localStorage entry under CACHE_KEY (a sequence holding no or one CacheData).
CacheOf(mem, ls, st) == [memoryCache |-> mem, lastSync |-> ls, stored |-> st]

CacheData(items, t) == [items |-> items, timestamp |-> t]

\* A load() that also returns a snapshot that holds no items.
loadEmptyToo(k, t) ==
    IF k.stored = <<>> \/ t - k.stored[1].timestamp > CACHE_TTL
    THEN [k |-> k, hit |-> FALSE, ret |-> <<>>]
    ELSE [k |-> CacheOf(MapSetAll(k.memoryCache, k.stored[1].items),
                        k.stored[1].timestamp, k.stored),
          hit |-> TRUE, ret |-> k.stored[1].items]

\* load(): [k |-> the state after the call, hit |-> FALSE when null is
\* returned, ret |-> the items returned].
load(k, t) ==
    IF k.stored = <<>> THEN [k |-> k, hit |-> FALSE, ret |-> <<>>]
    ELSE LET parsed == k.stored[1] IN
         IF t - parsed.timestamp > CACHE_TTL THEN [k |-> k, hit |-> FALSE, ret |-> <<>>]
         ELSE IF Len(parsed.items) = 0 THEN [k |-> k, hit |-> FALSE, ret |-> <<>>]
         ELSE [k |-> CacheOf(MapSetAll(k.memoryCache, parsed.items),
                             parsed.timestamp, k.stored),
               hit |-> TRUE, ret |-> parsed.items]

\* A save() that does not write the snapshot.
saveMemoryOnly(k, items, t) == CacheOf(MapSetAll(<<>>, items), t, k.stored)

save(k, items, t) ==
    CacheOf(MapSetAll(<<>>, items), t, <<CacheData(items, t)>>)

getAll(k) == k.memoryCache

persistToStorage(k, t) ==
    CacheOf(k.memoryCache, k.lastSync, <<CacheData(getAll(k), t)>>)

\* A set() that keeps the entry the map already has.
setIfAbsent(k, item, t) ==
    persistToStorage(
        CacheOf(IF HasId(k.memoryCache, item.id) THEN k.memoryCache
                ELSE Append(k.memoryCache, item), k.lastSync, k.stored), t)

set(k, item, t) ==
    persistToStorage(CacheOf(MapSet(k.memoryCache, item), k.lastSync, k.stored), t)

delete(k, id, t) ==
    IF HasId(k.memoryCache, id)
    THEN persistToStorage(CacheOf(MapDelete(k.memoryCache, id), k.lastSync, k.stored), t)
    ELSE k

\* update(id, updates): `{ ...existing, ...updates, updatedAt: now }` put in
\* the map and persisted; ret is <<>> for undefined (no entry for the id).
Merged(existing, updates) ==
    [f \in DOMAIN existing |-> IF f \in DOMAIN updates THEN updates[f] ELSE existing[f]]

update(k, id, updates, t) ==
    IF ~HasId(k.memoryCache, id) THEN [k |-> k, ret |-> <<>>]
    ELSE LET existing == k.memoryCache[CHOOSE n \in 1..Len(k.memoryCache) :
                                          k.memoryCache[n].id = id]
             updated == [Merged(existing, updates) EXCEPT !.updatedAt = t]
         IN [k |-> persistToStorage(CacheOf(MapSet(k.memoryCache, updated),
                                            k.lastSync, k.stored), t),
             ret |-> <<updated>>]

\* localStorage.setItem throws (quota exceeded) in the call that took the
\* cache from k to knew: the catch logs, the entry under CACHE_KEY stays.
Unpersisted(k, knew) == CacheOf(knew.memoryCache, knew.lastSync, k.stored)

isStale(k, t) == t - k.lastSync > CACHE_TTL

\* ------------------------------------------------------------------ state
VARIABLES
    now,          \* Date.now()
    remote,       \* the repository: path -> <<>> (no file) or <<content>>
    cache,        \* the CacheService singleton: memoryCache and lastSync
    localStorage, \* the entry under CACHE_KEY: <<>> or <<CacheData>>
    filePathMap,  \* StorageService.filePathMap: id -> path, NoPath when unset
    call,         \* per slot, the StorageService call in flight
    last,         \* the most recent completed call or outside event
    prev,         \* the one before it
    budget,       \* what is left of MaxOps, MaxExt, MaxReload
    lastFullSave, \* history: Date.now() at the latest cache.save(items), 0 for never
    owner,        \* GitHubService.owner is set (getUser has answered)
    initPc,       \* where StorageService.init() is: "none" before the call, "ok" after
    assets,       \* the repository: the asset paths that hold a file
    app           \* the state of the components App, Feed and ItemCard

vars == <<now, remote, cache, localStorage, filePathMap, call, last, prev, budget,
          lastFullSave, owner, initPc, assets, app>>

\* The component state: user, `user` and `github` of useAuth() are set;
\* isStorageReady and initError, the state of App; items, the query data of
\* the feed; isDeleting, the state of the card of the entity 1; isSaving, the
\* state of the capture bar; upload, the promise of its uploadAsset ("none":
\* not called or settled, "reading": the FileReader is reading, "creating":
\* createFile is requested, "unsettled": nothing is left to settle it).
AppOf(user, ready) ==
    [user |-> user, isStorageReady |-> ready, initError |-> "", isDeleting |-> FALSE,
     items |-> <<>>, isSaving |-> FALSE, upload |-> "none"]

K == CacheOf(cache.memoryCache, cache.lastSync, localStorage)

\* cache' and localStorage' from a cache state
PutK(k) ==
    /\ cache' = [memoryCache |-> k.memoryCache, lastSync |-> k.lastSync]
    /\ localStorage' = k.stored

\* A call in flight: the method, where it waits, and its locals (arg: the
\* Item the caller passed, NoItem when it passed an id; sha: the token read,
\* err: the rejection, files and got: the listing of getItems and the results
\* of its reads). History: how, which change the caller asked for, or how the
\* asset deletion ended; alone, no event was recorded since the method was
\* called; touched, the other writer wrote to the call's path since its token
\* was read; raced, touched as it was when the call's write reached the store.
Call(op, pc, item, id, path) ==
    [op |-> op, pc |-> pc, item |-> item, id |-> id, path |-> path, sha |-> <<>>,
     err |-> "", files |-> <<>>, got |-> <<>>, alone |-> TRUE, touched |-> FALSE,
     raced |-> FALSE, arg |-> NoItem, how |-> ""]

NoPath == <<0, 0>>
Idle == Call("none", "idle", NoItem, 0, NoPath)

\* An event: a completed call as its caller saw it (the method and its
\* argument, the error it threw, "" for none, the items it returned, whether
\* it sent any request to the remote store), or a reload or a write of the
\* other writer. For the toggles, arg is the Item passed and ret the Item
\* returned. History: at, the time of the event; alone, no other event was
\* recorded between the call of the method and its end; how, as in the call;
\* failedReads, the paths whose getFile failed in getItems.
Ev(op, id, item, err, result, sent) ==
    [op |-> op, id |-> id, item |-> item, err |-> err, result |-> result, sent |-> sent,
     at |-> now, alone |-> TRUE, arg |-> NoItem, ret |-> NoItem, how |-> "",
     failedReads |-> {}]

NoEv == Ev("none", 0, NoItem, "", <<>>, FALSE)

Record(ev) == last' = ev /\ prev' = last

\* The calls in flight, once an event is recorded (a write of the other
\* writer to path p, NoPath for any other event).
Disturbed(p) ==
    [s \in DOMAIN call |->
        IF call[s].op = "none" THEN call[s]
        ELSE [call[s] EXCEPT !.alone = FALSE, !.touched = @ \/ call[s].path = p]]

\* the end of the call in slot s
Complete(s, ev) ==
    /\ call' = [Disturbed(NoPath) EXCEPT ![s] = Idle]
    /\ Record([ev EXCEPT !.alone = call[s].alone])

Spend(what) == budget[what] > 0 /\ budget' = [budget EXCEPT ![what] = @ - 1]

Init ==
    /\ now = StartNow
    /\ remote = [p \in DataPaths |-> <<>>]
    /\ cache = [memoryCache |-> <<>>, lastSync |-> 0]
    /\ localStorage = <<>>
    /\ filePathMap = [i \in Ids |-> NoPath]
    /\ call = [s \in Slots |-> Idle]
    /\ last = NoEv
    /\ prev = NoEv
    /\ budget = [ops |-> MaxOps, ext |-> MaxExt, reload |-> MaxReload]
    /\ lastFullSave = 0
    /\ owner = TRUE
    /\ initPc = "ok"
    /\ assets = {}
    /\ app = AppOf(TRUE, TRUE)

\* ------------------------------------------------------------ environment
\* Time passes between two calls.
Tick ==
    /\ now + TickMinutes <= MaxNow
    /\ \A s \in DOMAIN call : call[s].op = "none"
    /\ now' = now + TickMinutes
    /\ UNCHANGED <<app, owner, initPc, assets, remote, cache, localStorage, filePathMap, call, last, prev, budget,
                   lastFullSave>>

\* The page is reloaded between two calls: `new CacheService()` and
\* `new StorageService(github)` start empty, localStorage and the repository
\* stay.
Reload ==
    /\ Spend("reload")
    /\ \A s \in Slots : call[s].op = "none"
    /\ cache' = [memoryCache |-> <<>>, lastSync |-> 0]
    /\ filePathMap' = [i \in Ids |-> NoPath]
    /\ call' = [s \in Slots |-> Idle]
    /\ Record(Ev("reload", 0, NoItem, "", <<>>, FALSE))
    /\ UNCHANGED <<app, owner, initPc, assets, now, remote, localStorage, lastFullSave>>

\* Another writer (the same account on another device) overwrites an entity.
OtherContent(c) == Stringify([Parse(c) EXCEPT !.content = "x"])

ExtWrite(p) ==
    /\ Spend("ext")
    /\ remote[p] # <<>>
    /\ remote[p][1] # OtherContent(remote[p][1])
    /\ remote' = [remote EXCEPT ![p] = <<OtherContent(remote[p][1])>>]
    /\ Record(Ev("extWrite", p[2], NoItem, "", <<>>, FALSE))
    /\ call' = Disturbed(p)
    /\ UNCHANGED <<app, owner, initPc, assets, now, cache, localStorage, filePathMap, lastFullSave>>

\* Another writer deletes an entity.
ExtDelete(p) ==
    /\ Spend("ext")
    /\ remote[p] # <<>>
    /\ remote' = [remote EXCEPT ![p] = <<>>]
    /\ Record(Ev("extDelete", p[2], NoItem, "", <<>>, FALSE))
    /\ call' = Disturbed(p)
    /\ UNCHANGED <<app, owner, initPc, assets, now, cache, localStorage, filePathMap, lastFullSave>>

\* ---------------------------------------------------------- GitHubService
\* `if (!this.owner || !this.repo) throw new Error("Repo not set")`, the first
\* line of every method that sends a request: the call c, or c rejected. The
\* constructor of StorageService has set repo.
Request(c) == IF owner THEN c ELSE [c EXCEPT !.pc = "done", !.err = "Repo not set"]

\* The call in slot s got as far as sending a request.
Sent(s) == call[s].err # "Repo not set"

\* A store that overwrites.
createFileUpsert(rem, path, content) ==
    [remote |-> [rem EXCEPT ![path] = <<content>>], err |-> ""]

\* createOrUpdateFileContents without a sha: creates the file; the store
\* refuses when the path is taken.
createFile(rem, path, content) ==
    IF rem[path] = <<>>
    THEN [remote |-> [rem EXCEPT ![path] = <<content>>], err |-> ""]
    ELSE [remote |-> rem, err |-> "Exists"]

\* getFileSha: <<the token of the file now at the path>>, <<>> for null.
getFileSha(rem, path) ==
    IF rem[path] = <<>> THEN <<>> ELSE <<ShaOf(rem[path][1])>>

\* A store that takes the write and then reports the stale sha.
updateFileLate(rem, path, content, sha) ==
    [remote |-> [rem EXCEPT ![path] = <<content>>],
     err |-> IF getFileSha(rem, path) = <<sha>> THEN "" ELSE "Conflict"]

\* createOrUpdateFileContents with the sha that updateFile read: the store
\* writes only when the sha is the one of the file now at the path.
updateFile(rem, path, content, sha) ==
    IF getFileSha(rem, path) = <<sha>>
    THEN [remote |-> [rem EXCEPT ![path] = <<content>>], err |-> ""]
    ELSE [remote |-> rem, err |-> "Conflict"]

\* A store that deletes whatever sha it is given.
deleteFileAnySha(rem, path, sha) ==
    [remote |-> [rem EXCEPT ![path] = <<>>], err |-> ""]

\* repos.deleteFile with the sha that deleteFile read.
deleteFile(rem, path, sha) ==
    IF getFileSha(rem, path) = <<sha>>
    THEN [remote |-> [rem EXCEPT ![path] = <<>>], err |-> ""]
    ELSE [remote |-> rem, err |-> "Conflict"]

\* listFiles('data') as getItems orders it: the names that end in .json,
\* sorted descending (b.name.localeCompare(a.name)).
NameAfter(p, q) == p[1] > q[1] \/ (p[1] = q[1] /\ p[2] > q[2])

RECURSIVE SortedDesc(_)
SortedDesc(S) ==
    IF S = {} THEN <<>>
    ELSE LET top == CHOOSE p \in S : \A q \in S \ {p} : NameAfter(p, q)
         IN <<top>> \o SortedDesc(S \ {top})

listFiles(rem) == SortedDesc({p \in DataPaths : rem[p] # <<>>})

\* ---------------------------------------------------------- StorageService
Free(s) == call[s].op = "none"

\* A saveItem that puts the item in the cache and the index before the
\* request.
SaveItemCallEager(s, item) ==
    /\ Free(s) /\ Spend("ops")
    /\ call' = [call EXCEPT ![s] =
                  Request(Call("save", "create", item, item.id, getFilePath(item)))]
    /\ PutK(set(K, item, now))
    /\ filePathMap' = [filePathMap EXCEPT ![item.id] = getFilePath(item)]
    /\ UNCHANGED <<app, owner, initPc, assets, now, remote, last, prev, lastFullSave>>

\* saveItem(item), up to the request of createFile.
SaveItemCall(s, item) ==
    /\ Free(s) /\ Spend("ops")
    /\ call' = [call EXCEPT ![s] =
                  Request(Call("save", "create", item, item.id, getFilePath(item)))]
    /\ UNCHANGED <<app, owner, initPc, assets, now, remote, cache, localStorage, filePathMap, last, prev, lastFullSave>>

\* createFile at the store.
SaveItemCreate(s) ==
    /\ call[s].op = "save" /\ call[s].pc = "create"
    /\ LET r == createFile(remote, call[s].path, Stringify(call[s].item)) IN
       /\ remote' = r.remote
       /\ call' = [call EXCEPT ![s].pc = "done", ![s].err = r.err]
    /\ UNCHANGED <<app, owner, initPc, assets, now, cache, localStorage, filePathMap, last, prev, budget, lastFullSave>>

\* saveItem after the await: cache.set and filePathMap.set, or the rejection.
SaveItemReturns(s) ==
    /\ call[s].op = "save" /\ call[s].pc = "done"
    /\ IF call[s].err = ""
       THEN /\ PutK(set(K, call[s].item, now))
            /\ filePathMap' = [filePathMap EXCEPT ![call[s].id] = call[s].path]
       ELSE UNCHANGED <<cache, localStorage, filePathMap>>
    /\ Complete(s, Ev("save", call[s].id, call[s].item, call[s].err, <<>>, Sent(s)))
    /\ UNCHANGED <<owner, initPc, assets, now, remote, budget, lastFullSave>>

\* saveItem called by anything but the capture bar below.
SaveItemDone(s) == SaveItemReturns(s) /\ UNCHANGED app

\* An edit that also stamps a new creation date.
EditedRedated(item, how) == [item EXCEPT !.content = "b", !.createdAt = @ + 1]

\* A toggle that always takes the pin.
EditedPinOnly(item, how) == [item EXCEPT !.pinned = ~item.pinned]

\* The three flags, by the name of the change that toggles them.
Flags == {"pin", "star", "archive"}

FlagOf(item, how) ==
    IF how = "pin" THEN item.pinned
    ELSE IF how = "star" THEN item.starred
    ELSE item.archived

\* What the user does to a card: edit its text, or toggle one of its flags
\* (`{ ...item, pinned: !item.pinned }` in togglePinned, and so on).
Edited(item, how) ==
    IF how = "pin" THEN [item EXCEPT !.pinned = ~item.pinned]
    ELSE IF how = "star" THEN [item EXCEPT !.starred = ~item.starred]
    ELSE IF how = "archive" THEN [item EXCEPT !.archived = ~item.archived]
    ELSE [item EXCEPT !.content = "b"]

\* `filePathMap.get(item.id) || this.getFilePath(item)`
PathOf(item) ==
    IF filePathMap[item.id] # NoPath THEN filePathMap[item.id] ELSE getFilePath(item)

\* updateItem(item), up to the request of getFileSha; togglePinned(item)
\* is updateItem({...item, pinned: !item.pinned}), and returns that Item.
UpdateItemCall(s, item, how) ==
    /\ Free(s) /\ Spend("ops")
    /\ LET updatedItem == [Edited(item, how) EXCEPT !.updatedAt = now] IN
       call' = [call EXCEPT ![s] =
                  Request([Call("update", "sha", updatedItem, item.id, PathOf(item))
                              EXCEPT !.arg = item, !.how = how])]
    /\ UNCHANGED <<app, owner, initPc, assets, now, remote, cache, localStorage, filePathMap, last, prev, lastFullSave>>

\* getFileSha at the store, for updateFile and deleteFile; `if (!sha) throw`.
GetFileSha(s) ==
    /\ call[s].pc = "sha"
    /\ LET sha == getFileSha(remote, call[s].path) IN
       IF sha = <<>>
       THEN call' = [call EXCEPT ![s].pc = "done", ![s].err = "NotFound"]
       ELSE call' = [call EXCEPT ![s].pc = "write", ![s].sha = sha, ![s].touched = FALSE]
    /\ UNCHANGED <<app, owner, initPc, assets, now, remote, cache, localStorage, filePathMap, last, prev, budget, lastFullSave>>

\* The write of updateFile at the store.
UpdateItemWrite(s) ==
    /\ call[s].op = "update" /\ call[s].pc = "write"
    /\ LET r == updateFile(remote, call[s].path, Stringify(call[s].item), call[s].sha[1]) IN
       /\ remote' = r.remote
       /\ call' = [call EXCEPT ![s].pc = "done", ![s].err = r.err,
                                ![s].raced = call[s].touched]
    /\ UNCHANGED <<app, owner, initPc, assets, now, cache, localStorage, filePathMap, last, prev, budget, lastFullSave>>

\* updateItem after the await: cache.set(updatedItem), or the rejection.
UpdateItemDone(s) ==
    /\ call[s].op = "update" /\ call[s].pc = "done"
    /\ IF call[s].err = ""
       THEN PutK(set(K, call[s].item, now))
       ELSE UNCHANGED <<cache, localStorage>>
    /\ Complete(s, [Ev("update", call[s].id, call[s].item, call[s].err, <<>>, Sent(s))
                       EXCEPT !.arg = call[s].arg, !.how = call[s].how,
                              !.ret = IF call[s].how \in Flags /\ call[s].err = ""
                                      THEN Edited(call[s].arg, call[s].how) ELSE NoItem])
    /\ UNCHANGED <<app, owner, initPc, assets, now, remote, filePathMap, budget, lastFullSave>>

\* deleteItem(itemOrId), called with the id (item = NoItem) or with the
\* Item: without a path in the index it ends at once, in the cache only; with
\* one it goes on to deleteFile.
DeleteItemCalled(s, id, item) ==
    /\ Free(s) /\ Spend("ops")
    /\ item = NoItem \/ item.id = id
    /\ IF filePathMap[id] = NoPath
       THEN /\ PutK(delete(K, id, now))
            /\ Record([Ev("delete", id, NoItem, "", <<>>, FALSE) EXCEPT !.arg = item])
            /\ UNCHANGED call
       ELSE /\ call' = [call EXCEPT ![s] =
                          Request([Call("delete", "sha", NoItem, id, filePathMap[id])
                                      EXCEPT !.arg = item])]
            /\ UNCHANGED <<cache, localStorage, last, prev>>
    /\ UNCHANGED <<owner, initPc, assets, now, remote, filePathMap, lastFullSave>>

\* deleteItem called by anything but the card below.
DeleteItemCall(s, id, item) == DeleteItemCalled(s, id, item) /\ UNCHANGED app

\* repos.deleteFile at the store.
DeleteItemWrite(s) ==
    /\ call[s].op = "delete" /\ call[s].pc = "write"
    /\ LET r == deleteFile(remote, call[s].path, call[s].sha[1]) IN
       /\ remote' = r.remote
       /\ call' = [call EXCEPT ![s].pc = "done", ![s].err = r.err]
    /\ UNCHANGED <<app, owner, initPc, assets, now, cache, localStorage, filePathMap, last, prev, budget, lastFullSave>>

\* The event of a deleteItem that ends.
DeleteEv(s) ==
    [Ev("delete", call[s].id, NoItem, call[s].err, <<>>, Sent(s))
        EXCEPT !.arg = call[s].arg, !.how = call[s].how]

\* deleteItem after the await: the rejection, or cache.delete and
\* filePathMap.delete, and then, `if (item?.image)`, the request of getFileSha
\* for the asset.
DeleteItemReturns(s) ==
    /\ call[s].op = "delete" /\ call[s].pc = "done"
    /\ IF call[s].err = ""
       THEN /\ PutK(delete(K, call[s].id, now))
            /\ filePathMap' = [filePathMap EXCEPT ![call[s].id] = NoPath]
            /\ IF call[s].arg.image # ""
               THEN /\ call' = [call EXCEPT ![s].pc = "assetSha"]
                    /\ UNCHANGED <<last, prev>>
               ELSE Complete(s, DeleteEv(s))
       ELSE /\ UNCHANGED <<cache, localStorage, filePathMap>>
            /\ Complete(s, DeleteEv(s))
    /\ UNCHANGED <<owner, initPc, assets, now, remote, budget, lastFullSave>>

DeleteItemDone(s) == DeleteItemReturns(s) /\ UNCHANGED app

\* An error that is thrown on.
Uncaught(e) == e

\* `try { await deleteFile(item.image) } catch { }`: what is left of an error
\* of the asset deletion.
Caught(e) == ""

\* getFileSha for the asset, at the store: null when the asset is not there
\* or the request fails (getFileSha catches every error), and then deleteFile
\* throws "File not found".
DeleteAssetSha(s, answered) ==
    /\ call[s].op = "delete" /\ call[s].pc = "assetSha"
    /\ IF answered /\ call[s].arg.image \in assets
       THEN call' = [call EXCEPT ![s].pc = "assetWrite"]
       ELSE call' = [call EXCEPT ![s].pc = "assetEnd", ![s].how = "assetFailed",
                                  ![s].err = Caught("File not found")]
    /\ UNCHANGED <<app, owner, initPc, assets, now, remote, cache, localStorage, filePathMap, last, prev,
                   budget, lastFullSave>>

\* repos.deleteFile for the asset, at the store: it deletes, or it fails.
DeleteAssetWrite(s, ok) ==
    /\ call[s].op = "delete" /\ call[s].pc = "assetWrite"
    /\ IF ok /\ call[s].arg.image \in assets
       THEN /\ assets' = assets \ {call[s].arg.image}
            /\ call' = [call EXCEPT ![s].pc = "assetEnd", ![s].how = "assetDeleted"]
       ELSE /\ assets' = assets
            /\ call' = [call EXCEPT ![s].pc = "assetEnd", ![s].how = "assetFailed",
                                     ![s].err = Caught("Failed")]
    /\ UNCHANGED <<app, owner, initPc, now, remote, cache, localStorage, filePathMap, last, prev,
                   budget, lastFullSave>>

\* deleteItem after the asset deletion.
DeleteItemEnd(s) ==
    /\ call[s].op = "delete" /\ call[s].pc = "assetEnd"
    /\ Complete(s, DeleteEv(s))
    /\ UNCHANGED <<app, owner, initPc, assets, now, remote, cache, localStorage, filePathMap, budget,
                   lastFullSave>>

\* getItems: `items.filter(i => i !== null)` over the results of the reads.
RECURSIVE ValidItems(_)
ValidItems(got) ==
    IF got = <<>> THEN <<>>
    ELSE (IF Head(got)[1] = "item" THEN <<Head(got)[2]>> ELSE <<>>) \o ValidItems(Tail(got))

GetItemsOp(force) == IF force THEN "getItemsForced" ELSE "getItems"

\* A getItems that saves whatever it has read.
GetItemsEndAlways(s, got) ==
    LET validItems == ValidItems(got) IN
    /\ PutK(save(K, validItems, now)) /\ lastFullSave' = now
    /\ Complete(s, Ev(call[s].op, 0, NoItem, "", sortItems(validItems), TRUE))

\* getItems after Promise.all: cache.save when an item was read, and the
\* sorted items are returned.
GetItemsEnd(s, got) ==
    LET validItems == ValidItems(got) IN
    /\ IF Len(validItems) > 0
       THEN PutK(save(K, validItems, now)) /\ lastFullSave' = now
       ELSE UNCHANGED <<cache, localStorage, lastFullSave>>
    /\ Complete(s, [Ev(call[s].op, 0, NoItem, "", sortItems(validItems), TRUE)
                       EXCEPT !.failedReads =
                           {call[s].files[n] : n \in {m \in DOMAIN got : got[m] = <<"failed">>}}])

\* getItems(forceRefresh), up to the request of listFiles: answered from the
\* cache when not forced and cache.load() returns items that are not stale.
GetItemsCall(s, forceRefresh) ==
    /\ Free(s) /\ Spend("ops")
    /\ LET l == IF forceRefresh THEN [k |-> K, hit |-> FALSE, ret |-> <<>>]
                ELSE load(K, now) IN
       /\ PutK(l.k)
       /\ IF l.hit /\ ~isStale(l.k, now)
          THEN /\ Record(Ev(GetItemsOp(forceRefresh), 0, NoItem, "", sortItems(l.ret), FALSE))
               /\ UNCHANGED call
          ELSE /\ call' = [call EXCEPT ![s] =
                   Request(Call(GetItemsOp(forceRefresh), "list", NoItem, 0, NoPath))]
               /\ UNCHANGED <<last, prev>>
    /\ UNCHANGED <<app, owner, initPc, assets, now, remote, filePathMap, lastFullSave>>

\* listFiles('data') at the store; Promise.all of no reads resolves at once.
GetItemsList(s) ==
    /\ call[s].pc = "list"
    /\ LET sortedFiles == listFiles(remote) IN
       IF sortedFiles = <<>>
       THEN GetItemsEnd(s, <<>>)
       ELSE /\ call' = [call EXCEPT ![s].pc = "read", ![s].files = sortedFiles,
                           ![s].got = [k \in 1..Len(sortedFiles) |-> <<"pending">>]]
            /\ UNCHANGED <<cache, localStorage, last, prev, lastFullSave>>
    /\ UNCHANGED <<app, owner, initPc, assets, now, remote, filePathMap, budget>>

\* The continuation of the n-th read of getItems with the result r: <<"item",
\* the item>> with its path put in filePathMap (under the item's id; an id of 0
\* is `undefined`, a key that no call looks up), or null. The last read ends
\* the call.
GetItemsGot(s, n, r) ==
    LET got == [call[s].got EXCEPT ![n] = r] IN
    /\ filePathMap' = IF r[1] = "item" /\ r[2].id \in Ids
                      THEN [filePathMap EXCEPT ![r[2].id] = call[s].files[n]]
                      ELSE filePathMap
    /\ IF \E m \in 1..Len(got) : got[m] = <<"pending">>
       THEN /\ call' = [call EXCEPT ![s].got = got]
            /\ UNCHANGED <<cache, localStorage, last, prev, lastFullSave>>
       ELSE GetItemsEnd(s, got)

\* getFile(path) when the request meets the fault (none: ""): the content
\* behind the path, or null (<<>>); `catch { return null }` turns every
\* rejection of the request, the 404 of a missing file like any other, into
\* null.
Faults == {"network", "unauthorized"}

getFile(rem, path, fault) ==
    IF fault # "" THEN [ret |-> <<>>, err |-> ""]
    ELSE [ret |-> rem[path], err |-> ""]

\* getFile(file.path) for one of the listed files, in any order, and its
\* continuation: null for a file that is gone or does not parse, else what
\* JSON.parse returns.
GetItemsRead(s, n) ==
    /\ call[s].pc = "read"
    /\ n \in 1..Len(call[s].files)
    /\ call[s].got[n] = <<"pending">>
    /\ LET r == getFile(remote, call[s].files[n], "")
           found == r.ret # <<>> /\ ParseOk(r.ret[1])
       IN GetItemsGot(s, n, IF found THEN <<"item", Parse(r.ret[1])>> ELSE <<"null">>)
    /\ UNCHANGED <<app, owner, initPc, assets, now, remote, budget>>

\* getFile(file.path) when the request fails for another reason than a
\* missing file: the read is answered with what getFile returns (marked
\* "failed" when that is null); a rejection would reject Promise.all and
\* with it getItems.
GetItemsReadFail(s, n, fault) ==
    /\ call[s].pc = "read"
    /\ n \in 1..Len(call[s].files)
    /\ call[s].got[n] = <<"pending">>
    /\ LET r == getFile(remote, call[s].files[n], fault) IN
       IF r.err # ""
       THEN /\ call' = [call EXCEPT ![s].pc = "done", ![s].err = r.err]
            /\ UNCHANGED <<cache, localStorage, filePathMap, last, prev, lastFullSave>>
       ELSE GetItemsGot(s, n, <<"failed">>)
    /\ UNCHANGED <<app, owner, initPc, assets, now, remote, budget>>

\* getItems rejected by listFiles ("Repo not set").
GetItemsFail(s) ==
    /\ call[s].op \in {"getItems", "getItemsForced"} /\ call[s].pc = "done"
    /\ Complete(s, Ev(call[s].op, 0, NoItem, call[s].err, <<>>, Sent(s)))
    /\ UNCHANGED <<app, owner, initPc, assets, now, remote, cache, localStorage, filePathMap, budget,
                   lastFullSave>>

\* optimisticUpdate(item)
OptimisticUpdate(item) ==
    /\ Spend("ops")
    /\ PutK(set(K, item, now))
    /\ Record(Ev("optimisticUpdate", item.id, item, "", <<>>, FALSE))
    /\ UNCHANGED <<app, owner, initPc, assets, now, remote, filePathMap, call, lastFullSave>>

\* optimisticDelete(id)
OptimisticDelete(id) ==
    /\ Spend("ops")
    /\ PutK(delete(K, id, now))
    /\ Record(Ev("optimisticDelete", id, NoItem, "", <<>>, FALSE))
    /\ UNCHANGED <<app, owner, initPc, assets, now, remote, filePathMap, call, lastFullSave>>

\* What getCachedItems() returns from the cache state k at time t.
getCachedItems(k, t) ==
    LET memoryItems == getAll(k)
        loaded == load(k, t)
    IN IF Len(memoryItems) = 0 /\ loaded.hit /\ Len(loaded.ret) > 0
       THEN sortItems(loaded.ret)
       ELSE sortItems(memoryItems)

\* getCachedItems(): the memory cache, or what cache.load() returns when the
\* memory cache is empty.
GetCachedItems ==
    /\ Spend("ops")
    /\ LET memoryItems == getAll(K)
           l == IF Len(memoryItems) = 0 THEN load(K, now)
                ELSE [k |-> K, hit |-> FALSE, ret |-> <<>>]
       IN
       /\ PutK(l.k)
       /\ Record(Ev("getCachedItems", 0, NoItem, "",
                    IF l.hit /\ Len(l.ret) > 0 THEN sortItems(l.ret)
                    ELSE sortItems(memoryItems), FALSE))
    /\ UNCHANGED <<app, owner, initPc, assets, now, remote, filePathMap, call, lastFullSave>>

\* ------------------------------------------------------------------- Spec
\* One call at a time in slot s; the clock, the reload and the other writer
\* come between its steps.
Next ==
    \/ Tick
    \/ Reload
    \/ \E p \in DataPaths : ExtWrite(p)
    \/ \E p \in DataPaths : ExtDelete(p)
    \/ \E s \in Slots, item \in NewItems : SaveItemCall(s, item)
    \/ \E s \in Slots : SaveItemCreate(s)
    \/ \E s \in Slots : SaveItemDone(s)
    \/ \E s \in Slots, item \in SeqRange(cache.memoryCache), how \in {"edit", "pin"} :
          UpdateItemCall(s, item, how)
    \/ \E s \in Slots : GetFileSha(s)
    \/ \E s \in Slots : UpdateItemWrite(s)
    \/ \E s \in Slots : UpdateItemDone(s)
    \/ \E s \in Slots, id \in Ids : DeleteItemCall(s, id, NoItem)
    \/ \E s \in Slots : DeleteItemWrite(s)
    \/ \E s \in Slots : DeleteItemDone(s)
    \/ \E s \in Slots, forceRefresh \in BOOLEAN : GetItemsCall(s, forceRefresh)
    \/ \E s \in Slots : GetItemsList(s)
    \/ \E s \in Slots, n \in 1..Cardinality(DataPaths) : GetItemsRead(s, n)
    \/ \E item \in NewItems : OptimisticUpdate(item)
    \/ \E id \in Ids : OptimisticDelete(id)
    \/ GetCachedItems

Spec == Init /\ [][Next]_vars

\* --------------------------------------------------------------- SpecInit
\* The page has just been loaded: init() has not been called, owner is not
\* set. An earlier session has left nothing, or the entity 1 in the
\* repository and in a snapshot taken a minute ago.
Earlier == Item(1, 1, 0, FALSE, "a")

InitCold ==
    /\ now = StartNow
    /\ \E left \in BOOLEAN :
          /\ remote = [p \in DataPaths |->
                         IF left /\ p = getFilePath(Earlier) THEN <<Stringify(Earlier)>>
                         ELSE <<>>]
          /\ localStorage = IF left THEN <<CacheData(<<Earlier>>, StartNow - 1)>> ELSE <<>>
    /\ cache = [memoryCache |-> <<>>, lastSync |-> 0]
    /\ filePathMap = [i \in Ids |-> NoPath]
    /\ call = [s \in Slots |-> Idle]
    /\ last = NoEv
    /\ prev = NoEv
    /\ budget = [ops |-> MaxOps, ext |-> MaxExt, reload |-> MaxReload]
    /\ lastFullSave = 0
    /\ owner = FALSE
    /\ initPc = "none"
    /\ assets = {}
    /\ app = AppOf(TRUE, FALSE)

\* init() is called (again, after it failed): getRepo awaits getUser when owner
\* is not set.
InitCall ==
    /\ initPc \in {"none", "failed"}
    /\ initPc' = IF owner THEN "repo" ELSE "user"
    /\ UNCHANGED <<app, now, remote, cache, localStorage, filePathMap, call, last, prev, budget,
                   lastFullSave, owner, assets>>

\* users.getAuthenticated answers and getUser sets owner, or it fails and
\* init() rejects.
InitGetUser(ok) ==
    /\ initPc = "user"
    /\ owner' = ok
    /\ initPc' = IF ok THEN "repo" ELSE "failed"
    /\ UNCHANGED <<app, now, remote, cache, localStorage, filePathMap, call, last, prev, budget,
                   lastFullSave, assets>>

\* repos.get answers with the repository and init() ends, or it fails and
\* getRepo returns null.
InitGetRepo(found) ==
    /\ initPc = "repo"
    /\ initPc' = IF found THEN "ok" ELSE "create"
    /\ UNCHANGED <<app, now, remote, cache, localStorage, filePathMap, call, last, prev, budget,
                   lastFullSave, owner, assets>>

\* createRepo for a repository that exists: the store refuses, init() rejects.
InitCreateRepo ==
    /\ initPc = "create"
    /\ initPc' = "failed"
    /\ UNCHANGED <<app, now, remote, cache, localStorage, filePathMap, call, last, prev, budget,
                   lastFullSave, owner, assets>>

NextInit ==
    \/ InitCall
    \/ \E ok \in BOOLEAN : InitGetUser(ok)
    \/ \E found \in BOOLEAN : InitGetRepo(found)
    \/ InitCreateRepo
    \/ \E s \in Slots, item \in NewItems : SaveItemCall(s, item)
    \/ \E s \in Slots : SaveItemCreate(s)
    \/ \E s \in Slots : SaveItemDone(s)
    \/ \E s \in Slots, item \in SeqRange(cache.memoryCache), how \in {"edit", "pin"} :
          UpdateItemCall(s, item, how)
    \/ \E s \in Slots : GetFileSha(s)
    \/ \E s \in Slots : UpdateItemWrite(s)
    \/ \E s \in Slots : UpdateItemDone(s)
    \/ \E s \in Slots, id \in Ids : DeleteItemCall(s, id, NoItem)
    \/ \E s \in Slots : DeleteItemWrite(s)
    \/ \E s \in Slots : DeleteItemDone(s)
    \/ \E s \in Slots, forceRefresh \in BOOLEAN : GetItemsCall(s, forceRefresh)
    \/ \E s \in Slots : GetItemsList(s)
    \/ \E s \in Slots, n \in 1..Cardinality(DataPaths) : GetItemsRead(s, n)
    \/ \E s \in Slots : GetItemsFail(s)

SpecInit == InitCold /\ [][NextInit]_vars

\* ------------------------------------------------------------- SpecAssets
\* Entities with an image: the capture flow has uploaded the asset and then
\* saves the entity with the asset's path in `image`. The asset is in the
\* repository, or it is not (any more).
AssetPath == "assets/a.png"

ImageItems == {[Item(1, 1, 0, p, "a") EXCEPT !.image = AssetPath] : p \in BOOLEAN}

InitAssets ==
    /\ now = StartNow
    /\ remote = [p \in DataPaths |-> <<>>]
    /\ cache = [memoryCache |-> <<>>, lastSync |-> 0]
    /\ localStorage = <<>>
    /\ filePathMap = [i \in Ids |-> NoPath]
    /\ call = [s \in Slots |-> Idle]
    /\ last = NoEv
    /\ prev = NoEv
    /\ budget = [ops |-> MaxOps, ext |-> MaxExt, reload |-> MaxReload]
    /\ lastFullSave = 0
    /\ owner = TRUE
    /\ initPc = "ok"
    /\ assets \in {{}, {AssetPath}}
    /\ app = AppOf(TRUE, TRUE)

\* The cards call deleteItem with the id or with the Item they show.
NextAssets ==
    \/ Reload
    \/ \E p \in DataPaths : ExtDelete(p)
    \/ \E s \in Slots, item \in ImageItems \cup NewItems : SaveItemCall(s, item)
    \/ \E s \in Slots : SaveItemCreate(s)
    \/ \E s \in Slots : SaveItemDone(s)
    \/ \E s \in Slots, item \in SeqRange(cache.memoryCache) : UpdateItemCall(s, item, "edit")
    \/ \E s \in Slots : GetFileSha(s)
    \/ \E s \in Slots : UpdateItemWrite(s)
    \/ \E s \in Slots : UpdateItemDone(s)
    \/ \E s \in Slots, id \in Ids : DeleteItemCall(s, id, NoItem)
    \/ \E s \in Slots, item \in SeqRange(cache.memoryCache) : DeleteItemCall(s, item.id, item)
    \/ \E s \in Slots : DeleteItemWrite(s)
    \/ \E s \in Slots : DeleteItemDone(s)
    \/ \E s \in Slots, answered \in BOOLEAN : DeleteAssetSha(s, answered)
    \/ \E s \in Slots, ok \in BOOLEAN : DeleteAssetWrite(s, ok)
    \/ \E s \in Slots : DeleteItemEnd(s)
    \/ \E s \in Slots : GetItemsCall(s, TRUE)
    \/ \E s \in Slots : GetItemsList(s)
    \/ \E s \in Slots, n \in 1..Cardinality(DataPaths) : GetItemsRead(s, n)
    \/ GetCachedItems

SpecAssets == InitAssets /\ [][NextAssets]_vars

\* -------------------------------------------------------------- SpecCache
\* The CacheService called directly, each localStorage.setItem succeeding or
\* throwing, with the two reads of StorageService that answer from the cache.
\* The repository stays empty.
Versions == {Item(1, 1, 0, FALSE, "a"), Item(1, 1, 0, FALSE, "b"), Item(2, 2, 0, FALSE, "a")}

\* The lists save(items) is called with, two entities with one id included.
SaveLists == {<<>>, <<Item(1, 1, 0, FALSE, "a")>>,
              <<Item(1, 1, 0, FALSE, "a"), Item(2, 2, 0, FALSE, "a")>>,
              <<Item(1, 1, 0, FALSE, "a"), Item(1, 1, 0, FALSE, "b")>>}

Updates == {[pinned |-> TRUE], [content |-> "b"]}

\* The cache after a mutating call that took it from K to knew, and how the
\* persistence step went.
Persist(knew, ok) == PutK(IF ok THEN knew ELSE Unpersisted(K, knew))

How(ok) == IF ok THEN "persisted" ELSE "unpersisted"

CacheSave(items, ok) ==
    /\ Spend("ops")
    /\ Persist(save(K, items, now), ok)
    /\ lastFullSave' = now
    /\ Record([Ev("cacheSave", 0, NoItem, "", items, FALSE) EXCEPT !.how = How(ok)])
    /\ UNCHANGED <<app, owner, initPc, assets, now, remote, filePathMap, call>>

CacheSet(item, ok) ==
    /\ Spend("ops")
    /\ Persist(set(K, item, now), ok)
    /\ Record([Ev("cacheSet", item.id, item, "", <<>>, FALSE) EXCEPT !.how = How(ok)])
    /\ UNCHANGED <<app, owner, initPc, assets, now, remote, filePathMap, call, lastFullSave>>

CacheUpdate(id, updates, ok) ==
    /\ Spend("ops")
    /\ LET u == update(K, id, updates, now) IN
       /\ Persist(u.k, ok)
       /\ Record([Ev("cacheUpdate", id, IF u.ret = <<>> THEN NoItem ELSE u.ret[1],
                     "", <<>>, FALSE)
                     EXCEPT !.how = IF u.ret = <<>> THEN "" ELSE How(ok)])
    /\ UNCHANGED <<app, owner, initPc, assets, now, remote, filePathMap, call, lastFullSave>>

CacheDelete(id, ok) ==
    /\ Spend("ops")
    /\ Persist(delete(K, id, now), ok)
    /\ Record([Ev("cacheDelete", id, NoItem, "", <<>>, FALSE)
                  EXCEPT !.how = IF HasId(cache.memoryCache, id) THEN How(ok) ELSE ""])
    /\ UNCHANGED <<app, owner, initPc, assets, now, remote, filePathMap, call, lastFullSave>>

NextCache ==
    \/ Tick
    \/ Reload
    \/ \E items \in SaveLists, ok \in BOOLEAN : CacheSave(items, ok)
    \/ \E item \in Versions, ok \in BOOLEAN : CacheSet(item, ok)
    \/ \E id \in Ids, updates \in Updates, ok \in BOOLEAN : CacheUpdate(id, updates, ok)
    \/ \E id \in Ids, ok \in BOOLEAN : CacheDelete(id, ok)
    \/ \E s \in Slots : GetItemsCall(s, FALSE)
    \/ \E s \in Slots : GetItemsList(s)
    \/ GetCachedItems

SpecCache == Init /\ [][NextCache]_vars

\* ---------------------------------------------------------------- SpecApp
\* The component App: what it renders, its effect that calls init() for each
\* new StorageService, and the feed's query. login and logout are those of
\* useAuth(); at most one init() is in flight.
\* The screens of App.
MainScreen == app.user /\ app.isStorageReady

FailedScreen == app.user /\ ~app.isStorageReady /\ app.initError # ""

\* login() succeeds on the Login screen: a new GitHubService (its owner set
\* or not) and with it a new StorageService; the effect runs
\* setInitError(null).
AppLogin(validated) ==
    /\ ~app.user
    /\ app' = [app EXCEPT !.user = TRUE, !.initError = ""]
    /\ owner' = validated
    /\ initPc' = "none"
    /\ filePathMap' = [i \in Ids |-> NoPath]
    /\ UNCHANGED <<now, remote, cache, localStorage, call, last, prev, budget, lastFullSave,
                   assets>>

\* The effect calls storage.init() for the new StorageService.
AppInitStorage == app.user /\ initPc = "none" /\ InitCall

\* After `await storage.init()`: setIsStorageReady(true), or the catch with
\* setInitError(message).
AppInitSettled ==
    /\ app.user
    /\ \/ initPc = "ok" /\ ~app.isStorageReady
          /\ app' = [app EXCEPT !.isStorageReady = TRUE]
       \/ initPc = "failed" /\ app.initError = ""
          /\ app' = [app EXCEPT !.initError = "Failed to initialize storage"]
    /\ UNCHANGED <<now, remote, cache, localStorage, filePathMap, call, last, prev, budget,
                   lastFullSave, owner, initPc, assets>>

\* logout(): RETRY LOGIN on the CONNECTION FAILED screen (retry), or the
\* logout control of the main screen.
AppLogout(retry) ==
    /\ IF retry THEN FailedScreen ELSE MainScreen
    /\ initPc \in {"ok", "failed"}
    /\ \A s \in Slots : call[s].op = "none"
    /\ app' = [app EXCEPT !.user = FALSE]
    /\ UNCHANGED <<now, remote, cache, localStorage, filePathMap, call, last, prev, budget,
                   lastFullSave, owner, initPc, assets>>

\* The feed is rendered and its query calls storage.getItems().
AppFeedQuery(s) == MainScreen /\ GetItemsCall(s, FALSE)

NextApp ==
    \/ \E validated \in BOOLEAN : AppLogin(validated)
    \/ AppInitStorage
    \/ \E ok \in BOOLEAN : InitGetUser(ok)
    \/ \E found \in BOOLEAN : InitGetRepo(found)
    \/ InitCreateRepo
    \/ AppInitSettled
    \/ \E retry \in BOOLEAN : AppLogout(retry)
    \/ \E s \in Slots : AppFeedQuery(s)
    \/ \E s \in Slots : GetItemsList(s)
    \/ \E s \in Slots, n \in 1..Cardinality(DataPaths) : GetItemsRead(s, n)
    \/ \E s \in Slots : GetItemsFail(s)
    \/ Tick

SpecApp == InitCold /\ [][NextApp]_vars

\* The same with logout on the CONNECTION FAILED screen only, as the App of
\* src/App.tsx wires it.
NextAppRetry ==
    \/ \E validated \in BOOLEAN : AppLogin(validated)
    \/ AppInitStorage
    \/ \E ok \in BOOLEAN : InitGetUser(ok)
    \/ \E found \in BOOLEAN : InitGetRepo(found)
    \/ InitCreateRepo
    \/ AppInitSettled
    \/ AppLogout(TRUE)
    \/ \E s \in Slots : AppFeedQuery(s)
    \/ \E s \in Slots : GetItemsList(s)
    \/ \E s \in Slots, n \in 1..Cardinality(DataPaths) : GetItemsRead(s, n)
    \/ Tick

SpecAppRetry == InitCold /\ [][NextAppRetry]_vars

\* --------------------------------------------------------------- SpecCard
\* The card of one entity in the feed and its delete control (ItemCard
\* deleteItem with isDeleting), over the deleteItem of StorageService.
CardItem == Item(1, 1, 0, FALSE, "a")

Shown == HasId(app.items, CardItem.id)

\* A card that is taken out of the feed whatever the call answered.
AfterDeleteDrop(a, err) ==
    [a EXCEPT !.items = MapDelete(a.items, CardItem.id), !.isDeleting = FALSE]

\* After `await storage.deleteItem(item.id)`: onDelete(item), the feed drops
\* the card (and with the card its state); or the catch, setIsDeleting(false).
AfterDelete(a, err) ==
    IF err = "" THEN [a EXCEPT !.items = MapDelete(a.items, CardItem.id),
                               !.isDeleting = FALSE]
    ELSE [a EXCEPT !.isDeleting = FALSE]

\* The feed shows the entity, which is in the repository and in the cache;
\* its path is in the index (after a fetch) or not (the feed shows the
\* snapshot after a reload).
InitCard ==
    /\ now = StartNow
    /\ remote = [p \in DataPaths |->
                    IF p = getFilePath(CardItem) THEN <<Stringify(CardItem)>> ELSE <<>>]
    /\ cache = [memoryCache |-> <<CardItem>>, lastSync |-> StartNow]
    /\ localStorage = <<CacheData(<<CardItem>>, StartNow)>>
    /\ \E known \in BOOLEAN :
          filePathMap = [i \in Ids |-> IF known /\ i = CardItem.id
                                       THEN getFilePath(CardItem) ELSE NoPath]
    /\ call = [s \in Slots |-> Idle]
    /\ last = NoEv
    /\ prev = NoEv
    /\ budget = [ops |-> MaxOps, ext |-> MaxExt, reload |-> MaxReload]
    /\ lastFullSave = StartNow
    /\ owner = TRUE
    /\ initPc = "ok"
    /\ assets = {}
    /\ app = [AppOf(TRUE, TRUE) EXCEPT !.items = <<CardItem>>]

\* A click on the delete control that is not armed: setIsDeleting(true).
CardClickArm ==
    /\ Shown /\ ~app.isDeleting
    /\ app' = [app EXCEPT !.isDeleting = TRUE]
    /\ UNCHANGED <<now, remote, cache, localStorage, filePathMap, call, last, prev, budget,
                   lastFullSave, owner, initPc, assets>>

\* onMouseLeave: setIsDeleting(false).
CardMouseLeave ==
    /\ Shown /\ app.isDeleting
    /\ app' = [app EXCEPT !.isDeleting = FALSE]
    /\ UNCHANGED <<now, remote, cache, localStorage, filePathMap, call, last, prev, budget,
                   lastFullSave, owner, initPc, assets>>

\* A click on the armed control: storage.deleteItem(item.id); without a path
\* in the index the call returns at once and the card goes on after its await.
CardClickConfirm(s) ==
    /\ Shown /\ app.isDeleting
    /\ DeleteItemCalled(s, CardItem.id, NoItem)
    /\ app' = IF filePathMap[CardItem.id] = NoPath THEN AfterDelete(app, "") ELSE app

\* deleteItem returns or rejects, and the card goes on after its await.
CardDeleteSettled(s) ==
    /\ DeleteItemReturns(s)
    /\ app' = AfterDelete(app, call[s].err)

NextCard ==
    \/ Tick
    \/ CardClickArm
    \/ CardMouseLeave
    \/ \E s \in Slots : CardClickConfirm(s)
    \/ \E s \in Slots : GetFileSha(s)
    \/ \E s \in Slots : DeleteItemWrite(s)
    \/ \E s \in Slots : CardDeleteSettled(s)
    \/ \E p \in DataPaths : ExtWrite(p)
    \/ \E p \in DataPaths : ExtDelete(p)

SpecCard == InitCard /\ [][NextCard]_vars

\* --------------------------------------------------------------- SpecRace
\* Two calls of updateItem / deleteItem in flight at once on one entity that
\* is in the repository, in the cache and in the index.
RaceSlots == {1, 2}
MaxRaceOps == 2       \* the calls of a run: the two that overlap

InitRace ==
    /\ now = StartNow
    /\ remote = [p \in DataPaths |->
                    IF p = getFilePath(CardItem) THEN <<Stringify(CardItem)>> ELSE <<>>]
    /\ cache = [memoryCache |-> <<CardItem>>, lastSync |-> StartNow]
    /\ localStorage = <<CacheData(<<CardItem>>, StartNow)>>
    /\ filePathMap = [i \in Ids |-> IF i = CardItem.id THEN getFilePath(CardItem)
                                     ELSE NoPath]
    /\ call = [s \in RaceSlots |-> Idle]
    /\ last = NoEv
    /\ prev = NoEv
    /\ budget = [ops |-> MaxRaceOps, ext |-> 0, reload |-> 0]
    /\ lastFullSave = StartNow
    /\ owner = TRUE
    /\ initPc = "ok"
    /\ assets = {}
    /\ app = [AppOf(TRUE, TRUE) EXCEPT !.items = <<CardItem>>]

NextRace ==
    \/ Tick
    \/ \E s \in RaceSlots, how \in {"edit", "pin"} : UpdateItemCall(s, CardItem, how)
    \/ \E s \in RaceSlots : GetFileSha(s)
    \/ \E s \in RaceSlots : UpdateItemWrite(s)
    \/ \E s \in RaceSlots : UpdateItemDone(s)
    \/ \E s \in RaceSlots : DeleteItemCall(s, CardItem.id, NoItem)
    \/ \E s \in RaceSlots : DeleteItemWrite(s)
    \/ \E s \in RaceSlots : DeleteItemDone(s)

SpecRace == InitRace /\ [][NextRace]_vars

\* ------------------------------------------------------------ SpecOverlap
\* A saveItem and a getItems in flight at once, over a repository that holds
\* one entity already: the feed refetches while the capture bar saves.
NextOverlap ==
    \/ Tick
    \/ \E s \in RaceSlots, item \in NewItems : SaveItemCall(s, item)
    \/ \E s \in RaceSlots : SaveItemCreate(s)
    \/ \E s \in RaceSlots : SaveItemDone(s)
    \/ \E s \in RaceSlots, forceRefresh \in BOOLEAN : GetItemsCall(s, forceRefresh)
    \/ \E s \in RaceSlots : GetItemsList(s)
    \/ \E s \in RaceSlots, n \in 1..Cardinality(DataPaths) : GetItemsRead(s, n)

SpecOverlap == InitRace /\ [][NextOverlap]_vars

\* ------------------------------------------------------------ SpecCapture
\* CaptureBar.handleSave over uploadAsset, optimisticUpdate and saveItem: the
\* user saves a text or a dropped file; the FileReader and each request to
\* the repository succeed or fail.
\* generateId() and `new Date()`: an entity no one has seen yet.
Fresh(item) ==
    /\ ~HasId(cache.memoryCache, item.id)
    /\ filePathMap[item.id] = NoPath
    /\ remote[getFilePath(item)] = <<>>

\* handleSave from the Item on: optimisticUpdate(item), then saveItem(item)
\* up to the request of createFile.
CaptureStage(s, item) ==
    /\ Fresh(item)
    /\ PutK(set(K, item, now))
    /\ call' = [call EXCEPT ![s] =
                  Request(Call("save", "create", item, item.id, getFilePath(item)))]
    /\ Record(Ev("optimisticUpdate", item.id, item, "", <<>>, FALSE))

\* handleSave with a text: `if (... || isSaving) return; setIsSaving(true)`.
HandleSaveText(s, item) ==
    /\ ~app.isSaving /\ Free(s) /\ Spend("ops")
    /\ CaptureStage(s, item)
    /\ app' = [app EXCEPT !.isSaving = TRUE]
    /\ UNCHANGED <<owner, initPc, assets, now, remote, filePathMap, lastFullSave>>

\* handleSave with a dropped file, up to reader.readAsDataURL(file).
HandleSaveFile(s) ==
    /\ ~app.isSaving /\ Free(s) /\ Spend("ops")
    /\ app' = [app EXCEPT !.isSaving = TRUE, !.upload = "reading"]
    /\ UNCHANGED <<owner, initPc, assets, now, remote, cache, localStorage, filePathMap,
                   call, last, prev, lastFullSave>>

\* The FileReader ends: onload, which requests createFile for the asset, or
\* onerror, which is reject; handleSave catches the rejection and its
\* `finally` runs setIsSaving(false).
ReaderEnds(loaded) ==
    /\ app.upload = "reading"
    /\ IF loaded
       THEN /\ app' = [app EXCEPT !.upload = "creating"]
            /\ UNCHANGED <<last, prev>>
       ELSE /\ app' = [app EXCEPT !.upload = "none", !.isSaving = FALSE]
            /\ Record(Ev("uploadAsset", 0, NoItem, "Failed", <<>>, FALSE))
    /\ UNCHANGED <<owner, initPc, assets, now, remote, cache, localStorage, filePathMap,
                   call, budget, lastFullSave>>

\* createFile for the asset, at the store, and the rest of onload: when it
\* succeeds, resolve(path), and handleSave goes on with the Item; when it
\* rejects, the async onload handler rejects and neither resolve nor reject
\* is called.
AssetCreate(s, created, item) ==
    /\ app.upload = "creating"
    /\ IF created
       THEN /\ assets' = assets \cup {item.image}
            /\ CaptureStage(s, item)
            /\ app' = [app EXCEPT !.upload = "none"]
       ELSE /\ app' = [app EXCEPT !.upload = "unsettled"]
            /\ UNCHANGED <<assets, cache, localStorage, call, last, prev>>
    /\ UNCHANGED <<owner, initPc, now, remote, filePathMap, budget, lastFullSave>>

\* createFile at the store when the request fails (the network, a 401, a
\* rate limit).
SaveItemCreateFail(s) ==
    /\ call[s].op = "save" /\ call[s].pc = "create"
    /\ call' = [call EXCEPT ![s].pc = "done", ![s].err = "Failed"]
    /\ UNCHANGED <<app, owner, initPc, assets, now, remote, cache, localStorage, filePathMap,
                   last, prev, budget, lastFullSave>>

\* handleSave after `await storage.saveItem(item)`: handleClose() or the
\* catch, and `finally { setIsSaving(false) }`.
CaptureSettled(s) ==
    /\ app.isSaving
    /\ SaveItemReturns(s)
    /\ app' = [app EXCEPT !.isSaving = FALSE]

NextCapture ==
    \/ Tick
    \/ \E s \in Slots, item \in NewItems : HandleSaveText(s, item)
    \/ \E s \in Slots : HandleSaveFile(s)
    \/ \E loaded \in BOOLEAN : ReaderEnds(loaded)
    \/ \E s \in Slots, created \in BOOLEAN, item \in ImageItems : AssetCreate(s, created, item)
    \/ \E s \in Slots : SaveItemCreate(s)
    \/ \E s \in Slots : SaveItemCreateFail(s)
    \/ \E s \in Slots : CaptureSettled(s)

\* Every request is answered and every event of the page is delivered.
SpecCapture == Init /\ [][NextCapture]_vars /\ WF_vars(NextCapture)

\* -------------------------------------------------------------- SpecStale
\* One entity in the repository and the cache, which another device deletes:
\* the user refetches and removes, and may save another entity.
NextStale ==
    \/ Tick
    \/ \E p \in DataPaths : ExtDelete(p)
    \/ \E s \in Slots, item \in NewItems : SaveItemCall(s, item)
    \/ \E s \in Slots : SaveItemCreate(s)
    \/ \E s \in Slots : SaveItemDone(s)
    \/ \E s \in Slots : DeleteItemCall(s, CardItem.id, NoItem)
    \/ \E s \in Slots : GetFileSha(s)
    \/ \E s \in Slots : DeleteItemWrite(s)
    \/ \E s \in Slots : DeleteItemDone(s)
    \/ \E s \in Slots : GetItemsCall(s, TRUE)
    \/ \E s \in Slots : GetItemsList(s)
    \/ \E s \in Slots, n \in 1..Cardinality(DataPaths) : GetItemsRead(s, n)

SpecStale == InitCard /\ [][NextStale]_vars

\* ------------------------------------------------------------- SpecFaults
\* getItems(true) over a repository in which a file of data/ may hold what the
\* application did not write, and in which a read may fail.
\* The text of a file that is not JSON: JSON.parse throws.
Garbage == [json |-> FALSE, item |-> NoItem]

\* The text of a file that is JSON but no Item: an object with a createdAt
\* and without an id (`item.id` is undefined, 0 here).
NonEntity == [json |-> TRUE, item |-> [NoItem EXCEPT !.createdAt = 1, !.content = "x"]]

\* A commit from elsewhere puts a file with such a text at a path of data/.
ExtPut(p, content) ==
    /\ Spend("ext")
    /\ remote' = [remote EXCEPT ![p] = <<content>>]
    /\ Record(Ev("extWrite", p[2], NoItem, "", <<>>, FALSE))
    /\ call' = Disturbed(p)
    /\ UNCHANGED <<app, owner, initPc, assets, now, cache, localStorage, filePathMap, lastFullSave>>

NextFaults ==
    \/ \E p \in DataPaths : ExtDelete(p)
    \/ \E p \in DataPaths, content \in {Garbage, NonEntity} : ExtPut(p, content)
    \/ \E s \in Slots, item \in NewItems : SaveItemCall(s, item)
    \/ \E s \in Slots : SaveItemCreate(s)
    \/ \E s \in Slots : SaveItemDone(s)
    \/ \E s \in Slots, forceRefresh \in BOOLEAN : GetItemsCall(s, forceRefresh)
    \/ \E s \in Slots : GetItemsList(s)
    \/ \E s \in Slots, n \in 1..Cardinality(DataPaths) : GetItemsRead(s, n)
    \/ \E s \in Slots, n \in 1..Cardinality(DataPaths), fault \in Faults :
          GetItemsReadFail(s, n, fault)

SpecFaults == Init /\ [][NextFaults]_vars

\* -------------------------------------------------------------- SpecFlags
\* The three toggles on one entity, with another device that toggles a flag
\* of the entity in the repository (the same application there: the toggled
\* copy with a new updatedAt).
ExtToggle(p, how) ==
    /\ Spend("ext")
    /\ remote[p] # <<>>
    /\ remote' = [remote EXCEPT ![p] =
                    <<Stringify([Edited(Parse(remote[p][1]), how) EXCEPT !.updatedAt = now])>>]
    /\ Record(Ev("extWrite", p[2], NoItem, "", <<>>, FALSE))
    /\ call' = Disturbed(p)
    /\ UNCHANGED <<app, owner, initPc, assets, now, cache, localStorage, filePathMap, lastFullSave>>

NextFlags ==
    \/ Tick
    \/ \E p \in DataPaths, how \in Flags : ExtToggle(p, how)
    \/ \E s \in Slots, item \in {i \in NewItems : i.id = 1} : SaveItemCall(s, item)
    \/ \E s \in Slots : SaveItemCreate(s)
    \/ \E s \in Slots : SaveItemDone(s)
    \/ \E s \in Slots, item \in SeqRange(cache.memoryCache), how \in Flags :
          UpdateItemCall(s, item, how)
    \/ \E s \in Slots : GetFileSha(s)
    \/ \E s \in Slots : UpdateItemWrite(s)
    \/ \E s \in Slots : UpdateItemDone(s)
    \/ \E s \in Slots : GetItemsCall(s, TRUE)
    \/ \E s \in Slots : GetItemsList(s)
    \/ \E s \in Slots, n \in 1..Cardinality(DataPaths) : GetItemsRead(s, n)

SpecFlags == Init /\ [][NextFlags]_vars

\* ================================================================= claims
\* The file the remote store holds at the derived path of an entity.
RemoteAt(item) == remote[getFilePath(item)]

\* Method b was called after method a had ended, and no other event came
\* between the call of a and the end of b.
Then(a, b) == last.op = b /\ last.alone /\ prev.op = a /\ prev.alone

OthersValue(file) == file = <<>> \/ Parse(file[1]).content = "x"

\* C1 as stated: after another writer overwrote an entity that the
\* coordinator had fetched or written before, the next updateItem of that
\* entity fails with Conflict and the remote object holds the other writer's
\* value.
C1_StaleUpdateConflicts ==
    (Then("extWrite", "update") /\ prev.id = last.id)
    => (last.err = "Conflict" /\ OthersValue(RemoteAt(last.item)))

\* What updateItem does instead (C1): updateFile reads the version token
\* itself, right before it writes, so the call fails with Conflict, and
\* leaves the other writer's value in place, only when the other writer's
\* write comes between that read and the write of the same call. An
\* overwrite made before the call is overwritten without an error.
C1_ConflictOnlyInRace ==
    \A s \in Slots :
        (call[s].op = "update" /\ call[s].pc = "done" /\ call[s].sha # <<>>)
        => /\ call[s].raced =>
                (call[s].err = "Conflict" /\ OthersValue(remote[call[s].path]))
           /\ ~call[s].raced => call[s].err = ""

C1_Witness ==
    \E s \in Slots :
        /\ call[s].op = "update" /\ call[s].pc = "done"
        /\ call[s].raced /\ call[s].err = "Conflict"
        /\ remote[call[s].path] # <<>>

\* C2 as stated: after deleteItem(id) returned without an error, the next
\* getItems(true) returns no entity with that id.
C2_DeletedStaysDeleted ==
    (Then("delete", "getItemsForced") /\ prev.err = "")
    => ~HasId(last.result, prev.id)

\* C3: after saveItem(e) succeeded, the next getItems(true) returns a
\* collection that holds an entity equal to e in every field.
C3_SaveThenFetch ==
    (Then("save", "getItemsForced") /\ prev.err = "")
    => \E k \in 1..Len(last.result) : last.result[k] = prev.item

C3_Witness ==
    /\ Then("save", "getItemsForced") /\ prev.err = ""
    /\ Len(last.result) = 2
    /\ prev.item.pinned

\* This step is a call of getItems(false): it is answered from the cache at
\* once, or it goes on to list the remote store.
AnsweredFromCache ==
    /\ call' = call /\ budget'.ops < budget.ops
    /\ last'.op = "getItems" /\ ~last'.sent

GoesToList ==
    \E s \in Slots : call[s].op = "none" /\ call'[s].op = "getItems" /\ call'[s].pc = "list"

SnapshotFresh == localStorage # <<>> /\ now - localStorage[1].timestamp <= CACHE_TTL

\* The latest event is a getItems() that returned, and now is within the
\* freshness window of what it returned: of its own fetch when it went to the
\* remote store, of the snapshot when it was answered from the cache.
InWindowOfRead ==
    /\ last.op = "getItems"
    /\ IF last.sent THEN now - last.at <= CACHE_TTL ELSE SnapshotFresh

\* C4 as stated: when getItems() has returned and nothing happened since, a
\* second getItems() within the freshness window is answered from the cache,
\* with the items the first call returned, also when the remote store is
\* empty.
C4_SecondReadFromCache ==
    [][(InWindowOfRead /\ (AnsweredFromCache \/ GoesToList))
       => (AnsweredFromCache /\ last'.result = last.result)]_vars

\* C4, amended: the same, when the first call returned at least one entity.
\* (An empty result is never stored, so the second call lists again.)
C4_SecondReadFromCacheNonEmpty ==
    [][(InWindowOfRead /\ Len(last.result) > 0 /\ (AnsweredFromCache \/ GoesToList))
       => (AnsweredFromCache /\ last'.result = last.result)]_vars

C4_Witness ==
    /\ last.op = "getItems" /\ ~last.sent
    /\ prev.op = "getItems" /\ prev.sent
    /\ Len(last.result) > 0 /\ last.result = prev.result

\* C5: the items that getItems and getCachedItems return are ordered: no
\* unpinned item before a pinned one, and among the pinned and among the
\* unpinned no item before one created later.
Ordered(items) ==
    \A i, j \in 1..Len(items) :
        i < j => /\ items[j].pinned => items[i].pinned
                 /\ items[i].pinned = items[j].pinned
                      => items[i].createdAt >= items[j].createdAt

C5_SortInvariant ==
    last.op \in {"getItems", "getItemsForced", "getCachedItems"} => Ordered(last.result)

C5_Witness ==
    /\ last.op = "getCachedItems"
    /\ Len(last.result) = 2
    /\ last.result[1].pinned /\ ~last.result[2].pinned
    /\ last.result[1].createdAt < last.result[2].createdAt
    /\ cache.memoryCache = <<last.result[2], last.result[1]>>

\* C6: right after optimisticUpdate(e), getCachedItems() returns a
\* collection that holds e, and neither call sent a remote request.
C6_StagedIsRead ==
    Then("optimisticUpdate", "getCachedItems")
    => /\ \E k \in 1..Len(last.result) : last.result[k] = prev.item
       /\ ~last.sent /\ ~prev.sent

C6_Witness ==
    /\ Then("optimisticUpdate", "getCachedItems")
    /\ Len(last.result) = 2
    /\ last.result[2] = prev.item

C8_CacheAnswersIffFresh ==
    [][(AnsweredFromCache \/ GoesToList)
       => (AnsweredFromCache <=>
             (/\ localStorage # <<>>
              /\ Len(localStorage[1].items) > 0
              /\ now - localStorage[1].timestamp <= CACHE_TTL))]_vars

C8_Witness ==
    \E s \in Slots :
        /\ call[s].op = "getItems" /\ call[s].pc = "list"
        /\ localStorage # <<>> /\ Len(localStorage[1].items) > 0
        /\ now - localStorage[1].timestamp > CACHE_TTL

\* C9 as stated: getItems(false) is answered from the cache only if a full
\* synchronisation (cache.save) happened within the last CACHE_TTL minutes.
C9_StalenessFromFullSync ==
    [][AnsweredFromCache => now - lastFullSave <= CACHE_TTL]_vars

\* C10 as stated: the timestamp of the persisted record is the time of the
\* latest full-collection save.
C10_TimestampIsFullSave ==
    localStorage # <<>> => localStorage[1].timestamp = lastFullSave

\* The coordinator operations that C11 names, as far as they are modelled.
CoordinatorOps == {"save", "update", "delete", "getItems", "getItemsForced"}

\* C11 as stated: as long as init() has not completed successfully, every
\* coordinator operation that has ended has failed, and the cache has not
\* been read (load() has filled no memory cache) or changed.
C11_FailsBeforeInit ==
    initPc # "ok"
    => /\ last.op \in CoordinatorOps => last.err # ""
       /\ cache.memoryCache = <<>>

\* C12 as stated: after deleteItem(id) for an id without a path in the index
\* (it sent no request) no error is reported, and the next getCachedItems()
\* returns no entity with that id.
C12_NoPathRemove ==
    (Then("delete", "getCachedItems") /\ ~prev.sent)
    => (prev.err = "" /\ ~HasId(last.result, prev.id))

\* C13 as stated: updateItem(e) and deleteItem(e) act on the remote object at
\* the path derived from e, also when the index has no entry for e.id: after
\* a deleteItem(e) that reported no error no object is at that path, after an
\* updateItem(e) that reported no error the updated entity is at that path.
C13_PathFallback ==
    /\ (last.op = "delete" /\ last.alone /\ last.err = "" /\ last.arg # NoItem)
         => remote[getFilePath(last.arg)] = <<>>
    /\ (last.op = "update" /\ last.alone /\ last.err = "")
         => remote[getFilePath(last.arg)] = <<Stringify(last.item)>>

\* The remote delete of the deleteItem in slot s has succeeded.
RemoteDeleteSucceeded(s) ==
    /\ call[s].op = "delete" /\ call[s].sha # <<>>
    /\ \/ call[s].pc = "done" /\ call[s].err = ""
       \/ call[s].pc \in {"assetSha", "assetWrite", "assetEnd"}

\* C14: a deleteItem whose remote delete has succeeded ends without an error,
\* however the asset deletion went, and when no other event came in between
\* neither the memory cache, nor the snapshot, nor the index holds the id.
C14_RemoveCompletes ==
    [][\A s \in Slots :
        (RemoteDeleteSucceeded(s) /\ call'[s].op = "none")
        => /\ last'.op = "delete" /\ last'.err = ""
           /\ call[s].alone
               => /\ ~HasId(cache'.memoryCache, call[s].id)
                  /\ localStorage' # <<>> => ~HasId(localStorage'[1].items, call[s].id)
                  /\ filePathMap'[call[s].id] = NoPath]_vars

C14_Witness ==
    /\ last.op = "delete" /\ last.sent /\ last.alone
    /\ last.err = "" /\ last.how = "assetFailed"
    /\ ~HasId(cache.memoryCache, last.id)

\* The four things a call may change.
Stores == <<remote, cache, localStorage, filePathMap>>

\* An updateItem or deleteItem that the store has refused.
FailedRemotely(c) == c.op \in {"update", "delete"} /\ c.err \in {"Conflict", "NotFound"}

\* C15: an updateItem or deleteItem whose request fails with Conflict or
\* NotFound changes nothing: every step of the call up to the failure, the
\* failing step and the step that ends it leave the remote store, the cache,
\* the snapshot and the index as they are, and the caller gets the error.
C15_FailureLeavesAll ==
    [][\A s \in Slots :
        /\ (/\ call'[s].pc # call[s].pc
            /\ call'[s].op \in {"update", "delete"}
            /\ call'[s].pc \in {"sha", "write"} \/ FailedRemotely(call'[s]))
           => UNCHANGED Stores
        /\ (FailedRemotely(call[s]) /\ call'[s].op = "none")
           => /\ UNCHANGED Stores
              /\ last'.op = call[s].op /\ last'.err = call[s].err]_vars

C15_Witness ==
    /\ last.op = "update" /\ last.alone /\ last.err = "NotFound"
    /\ remote[getFilePath(last.arg)] = <<>>
    /\ HasId(cache.memoryCache, last.id)

\* An item without its updatedAt and without the flag that `how` names.
Masked(a, how) ==
    [a EXCEPT !.updatedAt = 0,
              !.pinned = IF how = "pin" THEN FALSE ELSE @,
              !.starred = IF how = "star" THEN FALSE ELSE @,
              !.archived = IF how = "archive" THEN FALSE ELSE @]

\* a and b are equal but for the flag that `how` names and for updatedAt.
SameBut(a, b, how) == Masked(a, how) = Masked(b, how)

\* The entry of the memory cache for an id (NoItem for none).
Entry(mem, id) ==
    IF HasId(mem, id) THEN mem[CHOOSE k \in 1..Len(mem) : mem[k].id = id] ELSE NoItem

\* C17 as stated: a toggle that succeeds changes, of the entity stored in the
\* repository and of the entity stored in the cache, only the flag it names
\* and updatedAt, also when the caller's copy is older than the stored one.
C17_FlagsIndependent ==
    [][\A s \in Slots :
        /\ (/\ call[s].op = "update" /\ call[s].how \in Flags
            /\ call[s].pc = "write" /\ call'[s].pc = "done" /\ call'[s].err = "")
           => SameBut(Parse(remote[call[s].path][1]), Parse(remote'[call[s].path][1]),
                      call[s].how)
        /\ (/\ call[s].op = "update" /\ call[s].how \in Flags
            /\ call[s].pc = "done" /\ call[s].err = "" /\ call'[s].op = "none"
            /\ HasId(cache.memoryCache, call[s].id))
           => SameBut(Entry(cache.memoryCache, call[s].id),
                      Entry(cache'.memoryCache, call[s].id), call[s].how)]_vars

\* No call is in flight.
Quiet == \A s \in Slots : call[s].op = "none"

\* The latest event is a toggle that succeeded.
ToggleOk == last.op = "update" /\ last.how \in Flags /\ last.err = ""

\* C18 as stated: the Item a toggle returns has the flag negated and is
\* equal, field for field, to the entity the call wrote.
C18_ReturnsStored ==
    ToggleOk
    => /\ FlagOf(last.ret, last.how) = ~FlagOf(last.arg, last.how)
       /\ last.ret = last.item
       /\ (last.alone /\ Quiet) => /\ remote[getFilePath(last.arg)] = <<Stringify(last.ret)>>
                                  /\ Entry(cache.memoryCache, last.id) = last.ret

\* The Item a toggle returns, with the updatedAt that updateItem stamped on
\* the copy it stored.
RetStamped == [last.ret EXCEPT !.updatedAt = last.item.updatedAt]

\* C18, amended: the Item a toggle returns has the flag negated and is equal
\* to the entity the call wrote to the repository and to the cache in every
\* field but updatedAt: the stored entity has the updatedAt of the call, the
\* returned one the updatedAt of the caller's copy.
C18_ReturnsStoredButUpdatedAt ==
    ToggleOk
    => /\ FlagOf(last.ret, last.how) = ~FlagOf(last.arg, last.how)
       /\ RetStamped = last.item
       /\ last.ret.updatedAt = last.arg.updatedAt
       /\ (last.alone /\ Quiet) => /\ remote[getFilePath(last.arg)] = <<Stringify(RetStamped)>>
                                  /\ Entry(cache.memoryCache, last.id) = RetStamped

C18_Witness ==
    /\ ToggleOk /\ last.alone /\ last.how = "star"
    /\ last.ret.starred /\ ~last.arg.starred
    /\ last.ret.updatedAt # last.item.updatedAt
    /\ remote[getFilePath(last.arg)] = <<Stringify(last.item)>>

\* The paths of the repository that hold a file.
PathsOf(rem) == {p \in DataPaths : rem[p] # <<>>}

\* After a toggle of the pin that succeeded, getItems(true) has returned.
PinnedThenFetched ==
    Then("update", "getItemsForced") /\ prev.err = "" /\ prev.how = "pin"

\* C19: no step of updateItem changes the set of paths that hold a file; its
\* write leaves the stored id and createdAt as they are; and after a toggle
\* of the pin and getItems(true) the entity, with the pin toggled, is at
\* data/<createdAt>-<id>.json and in the result, which holds nothing else
\* when the repository holds nothing else.
C19_UpdateKeepsPath ==
    [][/\ \A s \in Slots :
            /\ (/\ call[s].op = "update" \/ call'[s].op = "update"
                /\ call'[s].pc # call[s].pc \/ call'[s].op # call[s].op)
               => PathsOf(remote') = PathsOf(remote)
            /\ (/\ call[s].op = "update" /\ call[s].pc = "write"
                /\ call'[s].pc = "done" /\ call'[s].err = "")
               => /\ Parse(remote'[call[s].path][1]).id = Parse(remote[call[s].path][1]).id
                  /\ Parse(remote'[call[s].path][1]).createdAt
                       = Parse(remote[call[s].path][1]).createdAt
                  /\ Parse(remote'[call[s].path][1]).updatedAt = now
       /\ PinnedThenFetched'
           => /\ prev'.item.pinned = ~prev'.arg.pinned
              /\ remote'[getFilePath(prev'.arg)] = <<Stringify(prev'.item)>>
              /\ \E k \in 1..Len(last'.result) : last'.result[k] = prev'.item
              /\ Cardinality(PathsOf(remote')) = 1 => last'.result = <<prev'.item>>]_vars

C19_Witness ==
    /\ PinnedThenFetched
    /\ prev.item.pinned /\ prev.item.updatedAt > 0
    /\ last.result = <<prev.item>>
    /\ remote[getFilePath(prev.arg)] = <<Stringify(prev.item)>>

\* C20: a saveItem whose path holds a file when its request reaches the
\* store fails: the store leaves the file as it is, and the step that ends
\* the call changes neither the cache nor the snapshot nor the index and
\* gives the caller the error.
C20_SaveIsFreshCreate ==
    [][\A s \in Slots :
        /\ (/\ call[s].op = "save" /\ call[s].pc = "create" /\ call'[s].pc = "done"
            /\ remote[call[s].path] # <<>>)
           => (UNCHANGED Stores /\ call'[s].err # "")
        /\ (call[s].op = "save" /\ call[s].err # "" /\ call'[s].op = "none")
           => /\ UNCHANGED Stores
              /\ last'.op = "save" /\ last'.err = call[s].err]_vars

C20_Witness ==
    /\ last.op = "save" /\ last.alone /\ last.err = "Exists"
    /\ RemoteAt(last.item) # <<>> /\ RemoteAt(last.item) # <<Stringify(last.item)>>
    /\ ~HasId(cache.memoryCache, last.id) /\ filePathMap[last.id] = NoPath

\* The latest event is a getItems(true) that returned with nothing else
\* happening between its listing and now.
FetchedAlone == last.op = "getItemsForced" /\ last.sent /\ last.alone /\ Quiet

\* The text parses as an entity: it is JSON and has an id.
IsEntity(content) == ParseOk(content) /\ Parse(content).id \in Ids

\* The listed files whose read did not fail and whose text satisfies Good.
Remaining(Good(_)) ==
    {p \in DataPaths : remote[p] # <<>> /\ p \notin last.failedReads /\ Good(remote[p][1])}

\* C16 as stated: getItems(true) returns whatever reads fail and whatever
\* texts do not parse as an entity; the result holds exactly the entities of
\* the other files, and each of these has its path in the index.
C16_DegradesByOmission ==
    FetchedAlone
    => /\ last.err = ""
       /\ SeqRange(last.result) = {Parse(remote[p][1]) : p \in Remaining(IsEntity)}
       /\ \A p \in Remaining(IsEntity) : filePathMap[Parse(remote[p][1]).id] = p

\* What holds of C16: the same for reads that fail and texts that are not
\* JSON; a text that is JSON is in the result, entity or not.
C16_OmitsFailedAndNotJson ==
    FetchedAlone
    => /\ last.err = ""
       /\ SeqRange(last.result) = {Parse(remote[p][1]) : p \in Remaining(ParseOk)}
       /\ \A p \in Remaining(IsEntity) : filePathMap[Parse(remote[p][1]).id] = p

C16_OmitsWitness ==
    /\ FetchedAlone
    /\ last.failedReads # {}
    /\ \E p \in DataPaths : remote[p] = <<Garbage>>
    /\ Len(last.result) = 0

\* C21 as stated: getFile answers null (not-exists) only for a file that is
\* not there; a read whose request fails for another reason is never
\* answered with null, in a call in flight or in one that has returned.
C21_OnlyNotFoundIsNull ==
    /\ \A s \in Slots : \A n \in DOMAIN call[s].got : call[s].got[n] # <<"failed">>
    /\ last.failedReads = {}

CacheMutators == {"cacheSave", "cacheSet", "cacheUpdate", "cacheDelete"}

\* The latest event is a mutating call of the cache whose persistence step
\* succeeded.
MutatedAndPersisted == last.op \in CacheMutators /\ last.how = "persisted"

SnapshotItems == IF localStorage = <<>> THEN {} ELSE SeqRange(localStorage[1].items)

\* C22 as stated: when a mutating call of the cache whose persistence step
\* succeeded has returned, the entities of the snapshot are the values of the
\* in-memory map, whatever the arguments.
C22_SnapshotIsMap ==
    MutatedAndPersisted
    => /\ localStorage # <<>>
       /\ SnapshotItems = SeqRange(cache.memoryCache)

\* No two entries of the list have the same id.
DistinctIds(items) ==
    \A i, j \in 1..Len(items) : items[i].id = items[j].id => i = j

\* What holds of C22: the same, unless the call is a save(items) whose list
\* has two entities with one id.
C22_SnapshotIsMapDistinct ==
    (MutatedAndPersisted /\ (last.op = "cacheSave" => DistinctIds(last.result)))
    => /\ localStorage # <<>>
       /\ SnapshotItems = SeqRange(cache.memoryCache)

C22_DistinctWitness ==
    /\ MutatedAndPersisted /\ last.op = "cacheUpdate"
    /\ prev.op = "cacheSave" /\ prev.how = "unpersisted" /\ Len(prev.result) = 2
    /\ Cardinality(SnapshotItems) = 2

\* The latest event is a mutating call of the cache whose persistence step
\* failed.
MutatedUnpersisted == last.op \in CacheMutators /\ last.how = "unpersisted"

\* This step is a getItems(false) or a getCachedItems() answered from the
\* cache.
ReadAnswered ==
    /\ last' # last
    /\ last'.op \in {"getItems", "getCachedItems"} /\ ~last'.sent

\* C23 as stated: a mutating call whose persistence step fails raises no
\* error and has changed the in-memory map; a read answered from the cache
\* after it returns the entities of the in-memory map and leaves that map as
\* it is.
C23_MemoryAuthoritative ==
    [][/\ MutatedUnpersisted'
          => /\ last'.err = ""
             /\ last'.op = "cacheSet" => last'.item \in SeqRange(cache'.memoryCache)
             /\ last'.op = "cacheUpdate" => last'.item \in SeqRange(cache'.memoryCache)
             /\ last'.op = "cacheDelete" => ~HasId(cache'.memoryCache, last'.id)
             /\ last'.op = "cacheSave"
                 => cache'.memoryCache = MapSetAll(<<>>, last'.result)
       /\ (MutatedUnpersisted /\ ReadAnswered)
          => /\ last'.err = ""
             /\ SeqRange(last'.result) = SeqRange(cache.memoryCache)
             /\ cache'.memoryCache = cache.memoryCache]_vars

\* What holds of C23: the first half, and the second for getCachedItems()
\* when the in-memory map is not empty.
C23_MemoryWhenNotEmpty ==
    [][/\ MutatedUnpersisted'
          => /\ last'.err = ""
             /\ last'.op \in {"cacheSet", "cacheUpdate"}
                 => last'.item \in SeqRange(cache'.memoryCache)
             /\ last'.op = "cacheDelete" => ~HasId(cache'.memoryCache, last'.id)
       /\ (/\ MutatedUnpersisted /\ ReadAnswered
           /\ last'.op = "getCachedItems" /\ cache.memoryCache # <<>>)
          => /\ SeqRange(last'.result) = SeqRange(cache.memoryCache)
             /\ cache'.memoryCache = cache.memoryCache]_vars

C23_MemoryWitness ==
    /\ last.op = "getCachedItems"
    /\ prev.op = "cacheSet" /\ prev.how = "unpersisted"
    /\ localStorage # <<>> /\ SnapshotItems # SeqRange(cache.memoryCache)
    /\ SeqRange(last.result) = SeqRange(cache.memoryCache)

\* C24 as stated: the capture bar and the feed are rendered only for a
\* StorageService whose init() has succeeded, so no request of the feed is
\* rejected with "Repo not set"; and the CONNECTION FAILED screen is left only
\* by logout.
C24_MainOnlyAfterInit ==
    [][/\ MainScreen' => initPc' = "ok"
       /\ last'.err # "Repo not set"
       /\ (FailedScreen /\ ~FailedScreen') => ~app'.user]_vars


\* A deleteItem is called in this step.
RemoveInvoked == budget'.ops < budget.ops

\* A deleteItem ends in this step, with the error err ("" for none).
RemoveEnded(err) ==
    /\ last'.op = "delete" /\ last'.err = err
    /\ \/ RemoveInvoked /\ call' = call
       \/ \E s \in Slots : call[s].op = "delete" /\ call'[s].op = "none"

\* C25: the click on a control that is not armed arms it and calls nothing;
\* deleteItem is called only from the armed control of a card that is shown;
\* a step that disarms the control without a call ending (the pointer
\* leaving) changes nothing else; a deleteItem that fails disarms the
\* control and leaves the card in the feed, one that succeeds takes the card
\* out.
C25_DeleteNeedsConfirm ==
    [][/\ (~app.isDeleting /\ app'.isDeleting)
          => (~RemoveInvoked /\ UNCHANGED <<call, last, prev, Stores>>)
       /\ RemoveInvoked => (app.isDeleting /\ Shown)
       /\ (app.isDeleting /\ ~app'.isDeleting /\ call' = call /\ ~RemoveInvoked)
          => (Shown' /\ UNCHANGED <<last, prev, Stores>>)
       /\ \A err \in {"Conflict", "NotFound"} :
             RemoveEnded(err) => (Shown' /\ ~app'.isDeleting /\ UNCHANGED Stores)
       /\ RemoveEnded("") => ~Shown']_vars

C25_Witness ==
    /\ last.op = "delete" /\ last.err = "Conflict"
    /\ Shown /\ ~app.isDeleting
    /\ RemoteAt(CardItem) # <<>>

FetchOps == {"getItems", "getItemsForced"}

ValueOf(s) == IF call[s].op = "update" THEN <<Stringify(call[s].item)>> ELSE <<>>

\* The call in slot s is about to write with the token it read.
AtWrite(s) == call[s].op \in {"update", "delete"} /\ call[s].pc = "write"

\* The call in slot s has written and has not yet returned.
HasWritten(s) ==
    call[s].op \in {"update", "delete"} /\ call[s].pc = "done" /\ call[s].sha # <<>>

\* The call in slot s writes in this step.
Writes(s) == AtWrite(s) /\ call'[s].pc = "done"

\* C27: of two calls on one id that read the same token before either
\* writes, the one that writes first succeeds and the repository holds its
\* value; the other, like any call whose token is no longer the current
\* one, gets Conflict and leaves the repository as it is; and the call that
\* got Conflict returns it and changes neither cache nor index.
C27_TokenRace ==
    [][/\ \A s, t \in RaceSlots :
            (/\ s # t /\ AtWrite(s) /\ AtWrite(t)
             /\ call[s].id = call[t].id /\ call[s].sha = call[t].sha /\ Writes(s))
            => /\ call'[s].err = ""
               /\ remote'[call[s].path] = ValueOf(s)
       /\ \A s, t \in RaceSlots :
            (/\ s # t /\ HasWritten(s) /\ call[s].err = "" /\ AtWrite(t)
             /\ call[s].id = call[t].id /\ call[s].sha = call[t].sha /\ Writes(t))
            => /\ call'[t].err = "Conflict"
               /\ remote' = remote /\ remote[call[s].path] = ValueOf(s)
       /\ \A t \in RaceSlots :
            (Writes(t) /\ getFileSha(remote, call[t].path) # call[t].sha)
            => (call'[t].err = "Conflict" /\ remote' = remote)
       /\ \A t \in RaceSlots :
            (HasWritten(t) /\ call[t].err = "Conflict" /\ call'[t].op = "none")
            => /\ UNCHANGED <<remote, cache, localStorage, filePathMap>>
               /\ last'.err = "Conflict" /\ last'.op = call[t].op]_vars

C27_Witness ==
    /\ last.op = "update" /\ last.err = "Conflict" /\ ~last.alone
    /\ prev.op = "update" /\ prev.err = "" /\ prev.id = last.id
    /\ prev.item # last.item
    /\ RemoteAt(prev.arg) = <<Stringify(prev.item)>>
    /\ Entry(cache.memoryCache, last.id) = prev.item

\* A deleteItem that went to the repository has ended without an error and
\* without a failure of the asset deletion, right after the save of the
\* entity it deleted, an entity with an image.
RemovedImageEntity ==
    /\ last.op = "delete" /\ last.sent /\ last.alone /\ Quiet
    /\ last.err = "" /\ last.how # "assetFailed"
    /\ prev.op = "save" /\ prev.alone /\ prev.err = ""
    /\ prev.id = last.id /\ prev.item.image # ""

\* C28 as stated: after a deleteItem of an entity with an image whose path is
\* in the index, when the asset deletion did not fail, the asset is no longer
\* in the repository, whether deleteItem got the Item or only its id.
C28_AssetCleanup == RemovedImageEntity => ~(prev.item.image \in assets)

\* What holds instead: the asset is gone when deleteItem got the Item.
C28_AssetCleanupWithItem ==
    (RemovedImageEntity /\ last.arg # NoItem) => ~(prev.item.image \in assets)

C28_WithItemWitness ==
    RemovedImageEntity /\ last.arg # NoItem /\ last.how = "assetDeleted"

\* What saveItem writes on the client.
ClientStores == <<cache, localStorage, filePathMap>>

\* C29: saveItem touches the cache and the index only in the step after the
\* createFile request has succeeded: its call and its request leave cache,
\* snapshot and index as they are; a request that succeeds has put the entity
\* at data/<createdAt>-<id>.json; the end of a successful saveItem puts the
\* entity in the cache and that path in the index; the end of a failed one
\* changes none of the three.
C29_SaveLifecycle ==
    [][\A s \in Slots :
        /\ (call'[s].op = "save" /\ call'[s].pc # call[s].pc) => UNCHANGED ClientStores
        /\ (/\ call[s].op = "save" /\ call[s].pc = "create"
            /\ call'[s].pc = "done" /\ call'[s].err = "")
           => /\ call[s].path = <<call[s].item.createdAt, call[s].item.id>>
              /\ remote[call[s].path] = <<>>
              /\ remote'[call[s].path] = <<Stringify(call[s].item)>>
        /\ (call[s].op = "save" /\ call[s].pc = "done" /\ call'[s].op = "none")
           => IF call[s].err = ""
              THEN /\ Entry(cache'.memoryCache, call[s].id) = call[s].item
                   /\ filePathMap' = [filePathMap EXCEPT ![call[s].id] =
                                        <<call[s].item.createdAt, call[s].item.id>>]
                   /\ last'.op = "save" /\ last'.err = ""
              ELSE /\ UNCHANGED ClientStores
                   /\ last'.op = "save" /\ last'.err # ""]_vars

C29_Witness ==
    /\ last.op = "save" /\ last.err = "" /\ last.alone /\ Quiet
    /\ prev.op = "save" /\ prev.err # ""
    /\ Entry(cache.memoryCache, last.id) = last.item
    /\ ~HasId(cache.memoryCache, prev.id)
    /\ filePathMap[last.id] = <<last.item.createdAt, last.item.id>>
    /\ filePathMap[prev.id] = NoPath
    /\ RemoteAt(last.item) = <<Stringify(last.item)>>

\* This step is a whole optimisticUpdate.
Staged ==
    budget'.ops < budget.ops /\ call' = call /\ last'.op = "optimisticUpdate"

\* C30 as stated: optimisticUpdate(e) takes no other entity out of what
\* getCachedItems() returns: every entity it would have returned before the
\* call, other than one with the id of e, is in what it returns after.
C30_StagingAdditive ==
    [][Staged =>
        \A i \in 1..Len(getCachedItems(K, now)) :
            LET other == getCachedItems(K, now)[i] IN
            other.id # last'.id => other \in SeqRange(getCachedItems(K', now'))]_vars

\* What holds instead: the entities of the memory cache stay.
C30_StagingKeepsMemory ==
    [][Staged =>
        \A i \in 1..Len(cache.memoryCache) :
            LET other == cache.memoryCache[i] IN
            other.id # last'.id => other \in SeqRange(getCachedItems(K', now'))]_vars

C30_KeepsMemoryWitness ==
    /\ last.op = "optimisticUpdate" /\ Len(cache.memoryCache) = 2
    /\ Len(getCachedItems(K, now)) = 2

\* No call is in flight in any slot.
Settled == \A s \in DOMAIN call : call[s].op = "none"

\* A saveItem has succeeded and a getItems that went to the repository has
\* returned; the one that ended last was in flight when the other ended.
SavedDuringFetch(saved, fetched) ==
    /\ saved.op = "save" /\ saved.err = ""
    /\ fetched.op \in {"getItems", "getItemsForced"} /\ fetched.sent /\ fetched.err = ""
    /\ ~last.alone

\* C31 as stated: once a saveItem(e) that succeeded and a getItems that was
\* in flight with it have both ended, the cache holds e.
C31_SaveSurvivesFetch ==
    (Settled /\ (SavedDuringFetch(prev, last) \/ SavedDuringFetch(last, prev)))
    => LET e == IF last.op = "save" THEN last.item ELSE prev.item IN
       Entry(cache.memoryCache, e.id) = e

\* What holds instead: e is in the cache when the fetch read e's file, or
\* returned no item at all, or ended before the save did.
C31_SaveSurvivesFetchThatSawIt ==
    (Settled /\ (SavedDuringFetch(prev, last) \/ SavedDuringFetch(last, prev)))
    => LET e == IF last.op = "save" THEN last.item ELSE prev.item
           fetched == IF last.op = "save" THEN prev ELSE last IN
       (last.op = "save" \/ HasId(fetched.result, e.id) \/ Len(fetched.result) = 0)
       => Entry(cache.memoryCache, e.id) = e

C31_SawItWitness ==
    /\ Settled /\ SavedDuringFetch(prev, last)
    /\ HasId(last.result, prev.id) /\ Len(last.result) = 2
    /\ Entry(cache.memoryCache, prev.id) = prev.item

\* Two calls of updateItem / deleteItem on one id have both ended without an
\* error, the one that ended last in flight when the other ended.
BothSucceeded ==
    /\ Settled /\ ~last.alone
    /\ last.op \in {"update", "delete"} /\ last.err = ""
    /\ prev.op \in {"update", "delete"} /\ prev.err = ""
    /\ last.id = prev.id

\* The cache entry for the entity is what the repository holds for it.
CacheAgrees(item) ==
    IF RemoteAt(item) = <<>> THEN ~HasId(cache.memoryCache, item.id)
    ELSE /\ HasId(cache.memoryCache, item.id)
         /\ RemoteAt(item) = <<Stringify(Entry(cache.memoryCache, item.id))>>

\* C32 as stated: once overlapping calls of updateItem and deleteItem on one
\* id have all ended and all succeeded at the repository, the cache entry of
\* the id is the content of the remote object, and there is none when the
\* object was deleted.
C32_CacheAgreesAtRest == BothSucceeded => CacheAgrees(CardItem)

\* What holds instead: they agree when the call that wrote last ended last.
C32_AgreesInWriteOrder ==
    (BothSucceeded /\ (last.op = "update" => RemoteAt(CardItem) = <<Stringify(last.item)>>)
                   /\ (last.op = "delete" => RemoteAt(CardItem) = <<>>))
    => CacheAgrees(CardItem)

C32_WriteOrderWitness ==
    /\ BothSucceeded /\ last.op = "update" /\ prev.op = "update"
    /\ prev.item # last.item
    /\ RemoteAt(CardItem) = <<Stringify(last.item)>> /\ CacheAgrees(CardItem)

\* C33 as stated: whatever the FileReader and createFile do, uploadAsset
\* settles, and the capture bar's isSaving returns to false.
C33_UploadSettles == app.isSaving ~> ~app.isSaving

\* What holds instead: the flow ends unless createFile for the asset failed.
C33_SettlesUnlessCreateFails == app.isSaving ~> (~app.isSaving \/ app.upload = "unsettled")

C33_UnlessWitness ==
    /\ ~app.isSaving /\ last.op = "save" /\ last.err = ""
    /\ last.item.image = AssetPath /\ AssetPath \in assets

\* The capture flow has finished: handleSave has returned and no call is in
\* flight.
CaptureFinished == ~app.isSaving /\ Quiet /\ app.upload = "none"

\* C34 as stated: when the saveItem of the capture flow fails, the entity
\* that optimisticUpdate staged is not left in the cache, and every entity the
\* finished flow left in the cache is in the repository.
C34_NoPhantom ==
    CaptureFinished =>
        /\ (last.op = "save" /\ last.err # "") => ~HasId(cache.memoryCache, last.id)
        /\ \A i \in 1..Len(cache.memoryCache) :
              RemoteAt(cache.memoryCache[i]) = <<Stringify(cache.memoryCache[i])>>

\* What holds instead: the entities of the saves that succeeded are in the
\* cache and in the repository.
C34_SavedAreStored ==
    (CaptureFinished /\ last.op = "save" /\ last.err = "")
    => /\ Entry(cache.memoryCache, last.id) = last.item
       /\ RemoteAt(last.item) = <<Stringify(last.item)>>

C34_StoredWitness ==
    /\ CaptureFinished /\ last.op = "save" /\ last.err = "" /\ last.item.image = ""
    /\ prev.op = "optimisticUpdate" /\ prev.item = last.item
    /\ Len(cache.memoryCache) = 1

\* The file of the entity is gone from the repository, the index still has
\* its path, and a deleteItem of it has ended right after a getItems(true)
\* that returned, each with nothing else happening during it.
RemovedAfterRefetch ==
    /\ Quiet /\ RemoteAt(CardItem) = <<>>
    /\ filePathMap[CardItem.id] # NoPath \/ last.err = ""
    /\ last.op = "delete" /\ last.id = CardItem.id /\ last.alone
    /\ prev.op = "getItemsForced" /\ prev.err = "" /\ prev.alone

\* C35 as stated: when the file of an entity was deleted by someone else and
\* the index still holds its path, deleteItem after a getItems(true) leaves
\* the cache without the entity.
C35_GoneCanBeCleared == RemovedAfterRefetch => ~HasId(cache.memoryCache, CardItem.id)

\* The file is gone (not by a deleteItem that is about to return), the
\* repository holds no entity, the index has the path and the cache has the
\* entity.
StaleAlone ==
    /\ \A p \in DataPaths : remote[p] = <<>>
    /\ filePathMap[CardItem.id] # NoPath
    /\ HasId(cache.memoryCache, CardItem.id)
    /\ \A s \in Slots : ~(call[s].op = "delete" /\ call[s].pc = "done" /\ call[s].err = "")

\* What holds instead: the entity is cleared when the refetch returned an
\* item; while the repository holds no entity, no step of getItems or
\* deleteItem takes the entity out of the cache or its path out of the index.
C35_ClearedWhenOthersExist ==
    [][/\ (RemovedAfterRefetch' /\ Len(prev'.result) > 0)
            => ~HasId(cache'.memoryCache, CardItem.id)
       /\ (StaleAlone /\ \A p \in DataPaths : remote'[p] = <<>>) => StaleAlone']_vars

C35_OthersWitness ==
    /\ RemovedAfterRefetch /\ Len(prev.result) > 0 /\ last.err = "NotFound"
    /\ ~HasId(cache.memoryCache, CardItem.id) /\ filePathMap[CardItem.id] # NoPath

====
